---------------------------- MODULE Spec2Model ----------------------------
(***************************************************************************)
(* A model of the Transkribus API client scripts.                          *)
(*                                                                         *)
(*  Part 1  the retrying request functions of connect_transkribus.py and   *)
(*          connectTranskribus.py (get_page_xml, get_job_status,           *)
(*          download_pagexml), driven by an arbitrary server.              *)
(*  Part 2  get_page_version_index of htr_model_validation.py and          *)
(*          validateHtrModel.py, a pure function of a transcript list and  *)
(*          a keyword.                                                     *)
(*  Part 3  the batch driver collection_transcription.py with the job      *)
(*          submission functions run_layout_analysis and                   *)
(*          run_text_recognition.                                          *)
(*                                                                         *)
(* Every part has its own specification over the same variables; the       *)
(* variables of the other parts rest at their idle values.                 *)
(***************************************************************************)
EXTENDS Integers, Sequences, FiniteSets, TLC

VARIABLES
    \* ---- Part 1: one call of a retrying request function
    fn,         \* the function that was called
    n0,         \* the n_retry argument of the outermost call
    curN,       \* n_retry of the innermost (running) call
    stack,      \* suspended recursive calls, outermost first
    log,        \* outcome of every request issued so far (not kept for the
                \* legacy get_page_xml)
    result,     \* Pending, Return(..) or Raise(..) of the outermost call
    legPhase,   \* legacy get_page_xml: "call" (about to request) or "await"
    legRetry,   \* legacy get_page_xml: the retry argument of the running call
    legRoot,    \* legacy get_page_xml: where the outermost call is suspended
    legNesting, \* legacy get_page_xml: the calls the interpreter can nest
                \* with room for a request, and with room for logging
    dlFile,     \* download_pagexml: state of the target file
    \* ---- Part 2: one application of get_page_version_index
    pviModule, pviTranscripts, pviKeyword, pviResult,
    \* ---- Part 3a: one run of the page selection loop
    selConfig,  \* PAGE_DROP_NR, PAGE_DROP_STATUS, PAGE_DROP_STATUS_FOLLOWING
    selPages,   \* the pages of the document
    selResult,  \* Pending, or the returned page_nr_selected
    \* ---- Part 3b: one run of collection_transcription.main
    flags,      \* do_p2pala, do_linefinder, do_htr
    pc,         \* the remote request main issues next
    colls,      \* collections still to process, the current one first
    docs,       \* documents of the current collection still to process
    curPages,   \* pages of the current document
    selected,   \* page_nr_selected of the current document
    runPc,      \* position inside run_layout_analysis / run_text_recognition
    jobid,      \* their local jobid
    jobStatus,  \* their local job_status
    jsN,        \* n_retry of the running get_job_status call
    jobs,       \* the platform's jobs: job id -> state
    reqLog,     \* every request sent so far, status polls excepted
    \* ---- Part 4: one run of the metric evaluator (htr_model_validation.main)
    evModule,   \* htr_model_validation or validateHtrModel
    evConfig,   \* REFERENCE_VERSION, PREDICTION_VERSION, FILTER_STATUS
    evDoc,      \* the pages of the document, as the platform holds them
    evPc,       \* "login", "fulldoc", "read", "aggregate", "finished", "aborted"
    evNext,     \* page_nr of the page read next
    evRows,     \* the rows of the textregions table
    evAgg,      \* the inputs of the error-rate computations
    evExc,      \* the exception that ended the run
    evLog,      \* every request sent so far
    \* ---- Part 5: the remote requests of one run of a batch driver
    lgDriver,   \* the driver that runs
    lgLog,      \* the requests sent so far, each with its outcome
    lgState,    \* "running", "finished" or "aborted"
    \* ---- Part 6: one call of get_colid
    ciListing,  \* the collections of the account, as the platform lists them
    ciName,     \* the argument col_name
    ciRequest,  \* outcome of the request of list_collections
    ciPc,       \* "list", "lookup" or "done"
    ciResult,   \* Pending, the returned colId or the exception raised
    \* ---- Part 7: one run of download_latest_pagexml.main
    dnZone,     \* the time zone of the process
    dnAccount,  \* colName of the collection and title of its document
    dnPages,    \* the transcripts of each page of the document
    dnPc,       \* "login", "list_collections", "list_documents", "fulldoc",
                \* "page", "finished" or "aborted"
    dnNext,     \* number of the page handled next
    dnDownloads,\* the calls of download_pagexml so far
    \* ---- Part 8: one run of a status-change driver
    stDriver,   \* status_change or changeStatus
    stRows,     \* the page number of each row of the input file
    stPages,    \* number of pages of the document
    stPc,       \* "login", "get_colid", "list_documents", "fulldoc", "update",
                \* "finished" or "aborted"
    stNext,     \* the row the loop over the rows handles next
    stTsid,     \* the column tsid
    stLog,      \* every request sent so far
    stWarnings, \* the warnings logged so far
    stExc,      \* the exception that ended the run
    \* ---- Part 9: one call of get_job_status, or of a function that polls
    plFn,       \* get_job_status, run_layout_analysis or run_text_recognition
    plPc,       \* "submit", "poll", "sleep", "returned" or "raised"
    plJob,      \* state of the job on the platform
    plN0,       \* n_retry the running get_job_status call was started with
    plN,        \* its local n_retry
    plLog,      \* the responses to the requests of the running call
    plPrev,     \* the responses to the requests of the call before it
    plSeen,     \* job_status, the state returned last
    \* ---- Part 10: one call of get_textregions
    txModule,   \* htr_model_validation or validateHtrModel
    txRegions,  \* the TextRegion elements of the page xml, in document order
    txFilter,   \* the argument textregion_types
    txResult,   \* Pending, the returned list or the exception raised
    \* ---- Part 11: one run of replaceCharacters
    rcDocs,     \* the documents of the collection, as the platform lists them
    rcPc,       \* "login", "list_documents", "fulldoc", "pagexml" (and the
                \* retries "pagexml_try", "pagexml_handler"), "post",
                \* "finished" or "aborted"
    rcDoc,      \* position of the document of the loop in the listing
    rcPage,     \* page_nr
    rcXml,      \* page_xml after the loop over the characters
    rcLog       \* every request sent so far

retryVars == <<fn, n0, curN, stack, log, result, legPhase, legRetry, legRoot,
              legNesting, dlFile>>
pviVars == <<pviModule, pviTranscripts, pviKeyword, pviResult>>
selVars == <<selConfig, selPages, selResult>>
drvVars == <<flags, pc, colls, docs, curPages, selected, runPc, jobid, jobStatus,
             jsN, jobs, reqLog>>
evVars == <<evModule, evConfig, evDoc, evPc, evNext, evRows, evAgg, evExc, evLog>>
lgVars == <<lgDriver, lgLog, lgState>>
ciVars == <<ciListing, ciName, ciRequest, ciPc, ciResult>>
dnVars == <<dnZone, dnAccount, dnPages, dnPc, dnNext, dnDownloads>>
stVars == <<stDriver, stRows, stPages, stPc, stNext, stTsid, stLog, stWarnings, stExc>>
plVars == <<plFn, plPc, plJob, plN0, plN, plLog, plPrev, plSeen>>
txVars == <<txModule, txRegions, txFilter, txResult>>
rcVars == <<rcDocs, rcPc, rcDoc, rcPage, rcXml, rcLog>>
laterVars == <<evVars, lgVars, ciVars, dnVars, stVars, plVars, txVars, rcVars>>
vars == <<retryVars, pviVars, selVars, drvVars, laterVars>>
otherThanRetry == <<pviVars, selVars, drvVars, laterVars>>

\* ------------------------------------------------------------------ bounds
\* largest n_retry argument explored
MaxRetry == 3

\* --------------------------------------------------------- common values
Pending == [kind |-> "pending"]
Raise(exc) == [kind |-> "raise", exc |-> exc]

\* A request function that sends its request once (get_sid,
\* list_collections, list_documents, get_document_content, post_page_xml,
\* update_page_status): the request is answered with status 200 ("ok"),
\* answered with another status ("fail"), or the connection is lost
\* ("conn").
RequestOutcomes == {"ok", "fail", "conn"}

\* The exception that leaves such a function: requests raises
\* ConnectionError out of the call, which is in no try block; after another
\* status the function logs the error and executes a bare raise with no
\* exception being handled (RuntimeError).
RequestError(o) == IF o = "conn" THEN "ConnectionError" ELSE "RuntimeError"

\* what the histories of requests keep of an outcome: whether the request
\* was answered with status 200
Replied(o) == IF o = "ok" THEN "ok" ELSE "fail"



(***************************************************************************)
(* Part 1.  The retrying request functions.                                *)
(*                                                                         *)
(* A request ends in one of the Outcomes.  Python's bare "raise" re-raises *)
(* the exception that is being handled by the current or an older frame    *)
(* and raises RuntimeError when there is none, so the frames that wait     *)
(* inside an "except" block are part of the state.                         *)
(***************************************************************************)
HttpOutcomes == {"ok", "e500", "eOther", "conn"}
DownloadOutcomes == {"ok", "http", "conn", "write"}
JobStates == {"CREATED", "RUNNING", "FINISHED", "FAILED", "CANCELED"}
RetryFunctions == {"get_page_xml", "get_page_xml_legacy", "download_pagexml",
                   "get_job_status"}

\* a successful return; text k is the body of the k-th response
ReturnText(k) == [kind |-> "return", value |-> "text", req |-> k]
ReturnNone == [kind |-> "return", value |-> "None"]
ReturnState(s) == [kind |-> "return", value |-> "state", state |-> s]

\* a suspended call: n is its local n_retry, inHandler tells whether the
\* recursive call was made from the "except" block (lines 111-114) or from
\* inside the "try" block (lines 94-97, 102-105)
Frame(n, h) == [n |-> n, inHandler |-> h]

\* sys.exception() is set: some waiting frame is inside its "except" block
ActiveException(stk) == \E i \in 1..Len(stk) : stk[i].inHandler

\* What propagating exception exc does to the suspended calls of get_page_xml:
\* a frame that waits in its handler lets it pass; a frame that waits in its
\* "try" block catches a ConnectionError (line 109) and retries from the
\* handler when its own n_retry is still positive.
RECURSIVE GpxUnwind(_, _)
GpxUnwind(stk, exc) ==
    IF stk = <<>> THEN [stack |-> <<>>, n |-> 0, result |-> Raise(exc)]
    ELSE LET f == stk[Len(stk)]
             rest == SubSeq(stk, 1, Len(stk) - 1)
         IN  IF ~f.inHandler /\ exc = "ConnectionError" /\ f.n > 0
             THEN [stack |-> Append(rest, Frame(f.n - 1, TRUE)),
                   n |-> f.n - 1, result |-> Pending]
             ELSE GpxUnwind(rest, exc)

\* one activation of connect_transkribus.get_page_xml with n_retry = n
\* receiving outcome o, run up to the next request or to the end of the call
GpxStep(stk, n, o, k) ==
    CASE o = "ok" -> [stack |-> <<>>, n |-> n, result |-> ReturnText(k)]
      [] o \in {"e500", "eOther"} ->
            IF n > 0
            THEN [stack |-> Append(stk, Frame(n - 1, FALSE)),
                  n |-> n - 1, result |-> Pending]
            ELSE GpxUnwind(stk, IF ActiveException(stk)
                                THEN "ConnectionError" ELSE "RuntimeError")
      [] o = "conn" ->
            IF n > 0
            THEN [stack |-> Append(stk, Frame(n - 1, TRUE)),
                  n |-> n - 1, result |-> Pending]
            ELSE GpxUnwind(stk, "ConnectionError")

GetPageXmlRequest(o) ==
    /\ fn = "get_page_xml" /\ result = Pending
    /\ LET r == GpxStep(stack, curN, o, Len(log) + 1)
       IN  /\ stack' = r.stack
           /\ curN' = r.n
           /\ result' = r.result
    /\ log' = Append(log, o)
    /\ UNCHANGED <<fn, n0, legPhase, legRetry, legRoot, legNesting, dlFile>>

\* connectTranskribus.get_page_xml(urlxml, sid, retry).  Only the outermost
\* call has retry = False; every recursive call has retry = True, re-raises
\* what it catches and returns what its callee returns.  legRoot records
\* where the outermost call waits: "running" (it is the running call),
\* "try" (line 80) or "handler" (line 88).  The retry after a response 500
\* is not counted, so only the interpreter ends a run of such responses:
\* every waiting call holds a frame, and the call that finds
\* legNesting.request calls waiting does not get to its response,
\* RecursionError passes through every frame.  legNesting.request is the
\* recursion limit of the interpreter less the frames of the caller and the
\* frames the request library needs; legNesting.logging is the same for the
\* frames logging.error needs, and matters when these are more: a call
\* nested deeper that logs an error is ended by RecursionError, unless the
\* logging module gets over it.  The code sets neither number, they are
\* given with the run.
MaxNesting == 3

Nesting(r, l) == [request |-> r, logging |-> l]

\* a suspended call of the legacy function
LegacyFrame(retry, h) == [retry |-> retry, inHandler |-> h]

LegacyDepthExceeded(stk, nesting) == Len(stk) >= nesting

LegacySend ==
    /\ fn = "get_page_xml_legacy" /\ result = Pending /\ legPhase = "call"
    /\ IF LegacyDepthExceeded(stack, legNesting.request)
       THEN /\ result' = Raise("RecursionError") /\ stack' = <<>>
            /\ UNCHANGED legPhase
       ELSE /\ legPhase' = "await"
            /\ UNCHANGED <<stack, result>>
    /\ UNCHANGED <<fn, n0, curN, log, legRetry, legRoot, legNesting, dlFile>>

LegacyStep(retry, root, o) ==
    CASE o = "ok" -> [retry |-> retry, root |-> root, result |-> ReturnText(0)]
      [] o = "e500" ->
            [retry |-> TRUE, root |-> IF root = "running" THEN "try" ELSE root,
             result |-> Pending]
      [] o = "eOther" -> [retry |-> retry, root |-> root, result |-> ReturnNone]
      [] o = "conn" ->
            IF ~retry \/ root = "try"
            THEN [retry |-> TRUE, root |-> "handler", result |-> Pending]
            ELSE [retry |-> retry, root |-> root,
                  result |-> Raise("ConnectionError")]

\* a retry that leaves no call waiting
LegacyStackNoFrames(stk, retry, o, r) == <<>>

\* the suspended calls after the response: a call that retries after a 500
\* waits in its try block; a lost connection unwinds the calls down to the
\* outermost one, which retries from its handler
LegacyStack(stk, retry, o, r) ==
    IF r.result # Pending THEN <<>>
    ELSE IF o = "e500" THEN Append(stk, LegacyFrame(retry, FALSE))
    ELSE <<LegacyFrame(FALSE, TRUE)>>

\* the running call logs an error before it returns None (line 82) or
\* re-raises (line 90)
LegacyLogs(retry, o) == o = "eOther" \/ (o = "conn" /\ retry)

LegacyReceive(o) ==
    /\ fn = "get_page_xml_legacy" /\ result = Pending /\ legPhase = "await"
    /\ LET r == LegacyStep(legRetry, legRoot, o)
       IN  \/ /\ legRetry' = r.retry
              /\ legRoot' = r.root
              /\ result' = r.result
              /\ stack' = LegacyStack(stack, legRetry, o, r)
           \/ /\ LegacyLogs(legRetry, o)
              /\ LegacyDepthExceeded(stack, legNesting.logging)
              /\ result' = Raise("RecursionError") /\ stack' = <<>>
              /\ UNCHANGED <<legRetry, legRoot>>
    /\ legPhase' = "call"
    /\ UNCHANGED <<fn, n0, curN, log, legNesting, dlFile>>

\* connect_transkribus.download_pagexml: the bare "except" covers the
\* request, raise_for_status and the writing of the file; the recursive call
\* is made from the handler, so what it raises passes through.
DownloadStep(n, o) ==
    CASE o = "ok" -> [n |-> n, result |-> ReturnNone, file |-> "complete"]
      [] OTHER ->
            LET file == IF o = "write" THEN "partial" ELSE dlFile
            IN  IF n > 0 THEN [n |-> n - 1, result |-> Pending, file |-> file]
                ELSE [n |-> n, file |-> file,
                      result |-> CASE o = "http" -> Raise("HTTPError")
                                   [] o = "conn" -> Raise("UnboundLocalError")
                                   [] o = "write" -> ReturnNone]

DownloadRequest(o) ==
    /\ fn = "download_pagexml" /\ result = Pending
    /\ LET r == DownloadStep(curN, o)
       IN  /\ curN' = r.n
           /\ result' = r.result
           /\ dlFile' = r.file
    /\ log' = Append(log, o)
    /\ UNCHANGED <<fn, n0, stack, legPhase, legRetry, legRoot, legNesting>>

\* connect_transkribus.get_job_status with n_retry = n: a response that is
\* not OK is retried while n_retry > 0; a lost connection is not caught.
GetJobStatus(n, o, state) ==
    CASE o = "ok" -> [n |-> n, result |-> ReturnState(state)]
      [] o \in {"e500", "eOther"} ->
            IF n > 0 THEN [n |-> n - 1, result |-> Pending]
            ELSE [n |-> n, result |-> Raise("RuntimeError")]
      [] o = "conn" -> [n |-> n, result |-> Raise("ConnectionError")]

JobStatusRequest(o, state) ==
    /\ fn = "get_job_status" /\ result = Pending
    /\ LET r == GetJobStatus(curN, o, state)
       IN  /\ curN' = r.n
           /\ result' = r.result
    /\ log' = Append(log, o)
    /\ UNCHANGED <<fn, n0, stack, legPhase, legRetry, legRoot, legNesting, dlFile>>

PviIdle ==
    /\ pviModule = "none" /\ pviTranscripts = <<>> /\ pviKeyword = <<>>
    /\ pviResult = Pending

RetryIdle ==
    /\ fn = "none" /\ n0 = 0 /\ curN = 0 /\ stack = <<>> /\ log = <<>>
    /\ result = Pending /\ legPhase = "call" /\ legRetry = FALSE
    /\ legRoot = "running" /\ legNesting = Nesting(0, 0) /\ dlFile = "absent"

SelIdle == selConfig = <<>> /\ selPages = <<>> /\ selResult = Pending

DrvIdle ==
    /\ flags = <<>> /\ pc = "none" /\ colls = <<>> /\ docs = <<>>
    /\ curPages = <<>> /\ selected = <<>> /\ runPc = "idle" /\ jobid = 0
    /\ jobStatus = "none" /\ jsN = 0 /\ jobs = <<>> /\ reqLog = <<>>

EvIdle ==
    /\ evModule = "none" /\ evConfig = <<>> /\ evDoc = <<>> /\ evPc = "none"
    /\ evNext = 0 /\ evRows = <<>> /\ evAgg = <<>> /\ evExc = "none"
    /\ evLog = <<>>

LgIdle == lgDriver = "none" /\ lgLog = <<>> /\ lgState = "none"

CiIdle ==
    /\ ciListing = <<>> /\ ciName = "none" /\ ciRequest = "none" /\ ciPc = "none"
    /\ ciResult = Pending

DnIdle ==
    /\ dnZone = "none" /\ dnAccount = <<>> /\ dnPages = <<>> /\ dnPc = "none"
    /\ dnNext = 0 /\ dnDownloads = <<>>

StIdle ==
    /\ stDriver = "none" /\ stRows = <<>> /\ stPages = 0 /\ stPc = "none"
    /\ stNext = 0 /\ stTsid = <<>> /\ stLog = <<>> /\ stWarnings = <<>>
    /\ stExc = "none"

PlIdle ==
    /\ plFn = "none" /\ plPc = "none" /\ plJob = "none" /\ plN0 = 0 /\ plN = 0
    /\ plLog = <<>> /\ plPrev = <<>> /\ plSeen = "none"

TxIdle ==
    /\ txModule = "none" /\ txRegions = <<>> /\ txFilter = {} /\ txResult = Pending

RcIdle ==
    /\ rcDocs = <<>> /\ rcPc = "none" /\ rcDoc = 0 /\ rcPage = 0 /\ rcXml = <<>>
    /\ rcLog = <<>>

LaterIdle == EvIdle /\ LgIdle /\ CiIdle /\ DnIdle /\ StIdle /\ PlIdle /\ TxIdle /\ RcIdle

InitRetry ==
    /\ fn \in RetryFunctions
    /\ n0 \in IF fn = "get_page_xml_legacy" THEN {0} ELSE 0..MaxRetry
    /\ curN = n0
    /\ stack = <<>> /\ log = <<>> /\ result = Pending
    /\ legPhase = "call" /\ legRetry = FALSE /\ legRoot = "running"
    /\ legNesting \in IF fn = "get_page_xml_legacy"
                       THEN UNION {{Nesting(r, l) : l \in 0..r} : r \in 1..MaxNesting}
                       ELSE {Nesting(0, 0)}
    /\ dlFile = "absent"
    /\ PviIdle /\ SelIdle /\ DrvIdle /\ LaterIdle

NextRetry ==
    \/ \E o \in HttpOutcomes : GetPageXmlRequest(o) /\ UNCHANGED otherThanRetry
    \/ LegacySend /\ UNCHANGED otherThanRetry
    \/ \E o \in HttpOutcomes : LegacyReceive(o) /\ UNCHANGED otherThanRetry
    \/ \E o \in DownloadOutcomes : DownloadRequest(o) /\ UNCHANGED otherThanRetry
    \/ \E o \in HttpOutcomes, s \in JobStates :
            JobStatusRequest(o, s) /\ UNCHANGED otherThanRetry

SpecRetry == InitRetry /\ [][NextRetry]_vars

\* the script is single-threaded and every request ends with a response or an
\* exception, so a call that can take a step does take it
FairSpecRetry == SpecRetry /\ WF_vars(NextRetry)


(***************************************************************************)
(* Part 2.  get_page_version_index.                                        *)
(*                                                                         *)
(* Strings are sequences of characters.  The keyword is handed to          *)
(* re.search as a PATTERN: of the regular-expression syntax the model      *)
(* keeps the literal characters, "." (any character) and "(" (which opens  *)
(* a group; without ")" the pattern does not compile and re.search raises  *)
(* re.error).  A transcript is a record with a status and, optionally, a   *)
(* toolName.                                                               *)
(***************************************************************************)
\* longest transcript list, longest keyword explored
MaxTranscripts == 2
MaxKeywordLen == 2

Latest == <<"l", "a", "t", "e", "s", "t">>
StatusGT == <<"G", "T">>
StatusNew == <<"N", "E", "W">>
PatternChars == {"a", "b", ".", "("}
ToolNames == {<<"a", "b">>, <<"b">>}
TranscriptStatuses == {StatusGT, StatusNew}

SeqsUpTo(S, n) == UNION {[1..k -> S] : k \in 0..n}

Transcripts ==
    [toolName : ToolNames, status : TranscriptStatuses]
        \cup [status : TranscriptStatuses]
TranscriptLists == SeqsUpTo(Transcripts, MaxTranscripts)

ReturnIndex(i) == [kind |-> "return", value |-> "index", idx |-> i]

\* re.compile fails on the pattern
ReError(pat) == \E i \in 1..Len(pat) : pat[i] = "("

\* a keyword: a string; a compiled pattern (re.compile of a string that
\* compiles), which re.search accepts in the place of a string; or some
\* other value that is not a string (None, a number)
StrKeyword(cs) == [isStr |-> TRUE, compiled |-> FALSE, chars |-> cs]
CompiledKeyword(cs) == [isStr |-> FALSE, compiled |-> TRUE, chars |-> cs]
NonStrKeyword == [isStr |-> FALSE, compiled |-> FALSE, chars |-> <<>>]
KeywordStrings ==
    SeqsUpTo(PatternChars, MaxKeywordLen) \cup {Latest} \cup TranscriptStatuses
Keywords ==
    {StrKeyword(cs) : cs \in KeywordStrings}
        \cup {CompiledKeyword(cs) : cs \in {s \in KeywordStrings : ~ReError(s)}}
        \cup {NonStrKeyword}

\* re.search(pat, s) finds a match, for a pattern that compiles
ReSearch(pat, s) ==
    \E off \in 0..(Len(s) - Len(pat)) :
        \A i \in 1..Len(pat) : pat[i] = "." \/ pat[i] = s[off + i]

\* htr_model_validation.get_page_version_index: the loop from transcript i on
RECURSIVE PviScan(_, _, _)
PviScan(ts, kw, i) ==
    IF i > Len(ts) THEN ReturnNone
    ELSE LET t == ts[i]
             hasTool == "toolName" \in DOMAIN t
         IN  IF hasTool /\ ReError(kw) THEN Raise("re.error")
             ELSE IF (hasTool /\ ReSearch(kw, t.toolName)) \/ t.status = kw
                  THEN ReturnIndex(i - 1)
                  ELSE PviScan(ts, kw, i + 1)

GetPageVersionIndexNoLatest(ts, keyword) ==
    IF ~keyword.isStr THEN Raise("TypeError")
    ELSE PviScan(ts, keyword.chars, 1)

GetPageVersionIndex(ts, keyword) ==
    IF ~keyword.isStr THEN Raise("TypeError")
    ELSE IF keyword.chars = Latest THEN ReturnIndex(0)
    ELSE PviScan(ts, keyword.chars, 1)

\* validateHtrModel.get_page_version_index: every exception of the search
\* (no toolName, a string that does not compile, a keyword that is neither
\* a string nor a compiled pattern) is caught and counts as "no match"; a
\* compiled pattern is searched for like the string it was compiled from;
\* the status is not compared
RECURSIVE PviScanOld(_, _, _)
PviScanOld(ts, keyword, i) ==
    IF i > Len(ts) THEN ReturnNone
    ELSE LET t == ts[i]
             failed == \/ "toolName" \notin DOMAIN t
                       \/ ~keyword.isStr /\ ~keyword.compiled
                       \/ keyword.isStr /\ ReError(keyword.chars)
         IN  IF ~failed /\ ReSearch(keyword.chars, t.toolName)
             THEN ReturnIndex(i - 1)
             ELSE PviScanOld(ts, keyword, i + 1)

GetPageVersionIndexOld(ts, keyword) ==
    IF keyword.isStr /\ keyword.chars = Latest THEN ReturnIndex(0)
    ELSE PviScanOld(ts, keyword, 1)

PviModules == {"htr_model_validation", "validateHtrModel"}

PviApply ==
    /\ pviModule \in PviModules /\ pviResult = Pending
    /\ pviResult' = IF pviModule = "htr_model_validation"
                    THEN GetPageVersionIndex(pviTranscripts, pviKeyword)
                    ELSE GetPageVersionIndexOld(pviTranscripts, pviKeyword)
    /\ UNCHANGED <<pviModule, pviTranscripts, pviKeyword>>

InitVersion ==
    /\ RetryIdle /\ SelIdle /\ DrvIdle /\ LaterIdle
    /\ pviModule \in PviModules
    /\ pviTranscripts \in TranscriptLists
    /\ pviKeyword \in Keywords
    /\ pviResult = Pending

NextVersion == PviApply /\ UNCHANGED <<retryVars, selVars, drvVars, laterVars>>

SpecVersion == InitVersion /\ [][NextVersion]_vars


(***************************************************************************)
(* Part 3a.  The page selection of collection_transcription.main           *)
(* (lines 150-163) as a function of the document's pages and of the three  *)
(* configuration constants.                                                *)
(***************************************************************************)
\* most pages in one document
MaxPages == 3

PageStatuses == {"NEW", "DONE"}

PageId(doc, nr) == 100 * doc + nr

\* the pageList of a document whose pages 1..Len(sts) have the latest
\* (index 0) transcript status sts[i]
PagesOf(doc, sts) ==
    [i \in 1..Len(sts) |->
        [pageNr |-> i, pageId |-> PageId(doc, i),
         transcripts |-> <<[status |-> sts[i]]>>]]

PageLists(doc) == {PagesOf(doc, sts) : sts \in SeqsUpTo(PageStatuses, MaxPages)}

SelConfig(dropNr, dropStatus, following) ==
    [dropNr |-> dropNr, dropStatus |-> dropStatus, following |-> following]

\* the loop "for page in pages['pages']" from page i on; acc is
\* page_nr_selected, drop is drop_following_pages
RECURSIVE SelectLoop(_, _, _, _, _)
SelectLoop(pages, c, i, drop, acc) ==
    IF i > Len(pages) \/ drop THEN acc
    ELSE IF pages[i].pageNr \in c.dropNr
         THEN SelectLoop(pages, c, i + 1, drop, acc)
    ELSE IF pages[i].transcripts[1].status \in c.dropStatus
         THEN SelectLoop(pages, c, i + 1, c.following, acc)
    ELSE SelectLoop(pages, c, i + 1, drop,
                    Append(acc, [pageNr |-> pages[i].pageNr,
                                 pageId |-> pages[i].pageId]))

SelectPages(pages, c) == SelectLoop(pages, c, 1, FALSE, <<>>)

SelectApply ==
    /\ selResult = Pending
    /\ selResult' = [kind |-> "return",
                     selected |-> SelectPages(selPages, selConfig)]
    /\ UNCHANGED <<selConfig, selPages>>

InitSelect ==
    /\ RetryIdle /\ PviIdle /\ DrvIdle /\ LaterIdle
    /\ selConfig \in {SelConfig(nr, st, f) : nr \in SUBSET (1..MaxPages),
                                             st \in SUBSET PageStatuses,
                                             f \in BOOLEAN}
    /\ selPages \in PageLists(1)
    /\ selResult = Pending

NextSelect == SelectApply /\ UNCHANGED <<retryVars, pviVars, drvVars, laterVars>>

SpecSelect == InitSelect /\ [][NextSelect]_vars


(***************************************************************************)
(* Part 3b.  collection_transcription.main with run_layout_analysis,       *)
(* run_text_recognition and get_job_status.                                *)
(*                                                                         *)
(* main is cut at its remote requests: pc names the request it issues      *)
(* next, and every action is one request with all the local work up to     *)
(* the next one.  The platform holds a small catalogue and the jobs;       *)
(* the page list of a document is whatever the platform answers.           *)
(***************************************************************************)
\* n_retry of the get_job_status calls made by the polling loops: the
\* default of the parameter
PollRetry == 60

\* configuration constants of collection_transcription.py; the identifiers
\* of the catalogue below stand for the platform's
COLL_DROP == {2}
PAGE_DROP_STATUS == {"DONE"}
PAGE_DROP_STATUS_FOLLOWING == TRUE
PAGE_DROP_NR == {1, 2}
ShippedConfig ==
    SelConfig(PAGE_DROP_NR, PAGE_DROP_STATUS, PAGE_DROP_STATUS_FOLLOWING)

\* the catalogue of the platform and the document filter file
Collections == <<1, 2, 3>>
DocumentsOf(col) ==
    CASE col = 1 -> <<11, 12>> [] col = 2 -> <<21>> [] col = 3 -> <<31>>
DocFilter == {11, 21, 31}

StepOrder == <<"p2pala", "linefinder", "htr">>
StepIndex(step) == CHOOSE i \in 1..3 : StepOrder[i] = step
TerminalStates == {"FINISHED", "FAILED", "CANCELED"}
NextJobStates(st) ==
    CASE st = "CREATED" -> {"RUNNING", "CANCELED"}
      [] st = "RUNNING" -> {"FINISHED", "FAILED", "CANCELED"}
      [] OTHER -> {}

KeepAll(seq, S) == seq

Keep(seq, S) == SelectSeq(seq, LAMBDA x : x \in S)
Drop(seq, S) == SelectSeq(seq, LAMBDA x : x \notin S)

\* main has no try/except: an exception raised below it ends the run
DriverAfterRaise == "aborted"

LoopExitOnTerminalState(job_status) == job_status \in TerminalStates

LoopExitAtOnce(job_status) == TRUE

LoopExitNever(job_status) == FALSE

\* "if job_status == 'FINISHED': break"
LoopExit(job_status) == job_status = "FINISHED"

Goto(p, cs, ds) == [pc |-> p, colls |-> cs, docs |-> ds]

\* the loops "for doc in docs" and "for row in coll.iterrows()" move on
AfterDocument(cs, ds) ==
    IF Len(ds) > 1 THEN Goto("fulldoc", cs, Tail(ds))
    ELSE IF Len(cs) > 1 THEN Goto("list_documents", Tail(cs), <<>>)
    ELSE Goto("finished", <<>>, <<>>)

\* run_layout_analysis or run_text_recognition raised: the calls are not
\* wrapped in a try, the exception leaves the loops and main
AfterJobErrorNextDocument(cs, ds) == AfterDocument(cs, ds)

AfterJobError(cs, ds) == Goto(DriverAfterRaise, cs, ds)

\* the first of the steps i, i+1, .. that the answers at start-up enabled
RECURSIVE StepFrom(_, _, _, _)
StepFrom(fl, i, cs, ds) ==
    IF i > 3 THEN AfterDocument(cs, ds)
    ELSE IF fl[StepOrder[i]] THEN Goto(StepOrder[i], cs, ds)
    ELSE StepFrom(fl, i + 1, cs, ds)

LogRequest(r) == reqLog' = Append(reqLog, r)

JobRequestWithEveryPageNumber(kind, ok, id) ==
    [req |-> kind, step |-> pc, colId |-> colls[1], docId |-> docs[1],
     pageIds |-> IF kind = "LA"
                 THEN [i \in 1..Len(selected) |-> selected[i].pageId] ELSE <<>>,
     pages |-> IF kind = "HTR"
               THEN [i \in 1..Len(curPages) |-> curPages[i].pageNr] ELSE <<>>,
     ok |-> ok, jobId |-> id,
     polled |-> FALSE, pollId |-> 0, observed |-> "none", returned |-> FALSE]

JobRequest(kind, ok, id) ==
    [req |-> kind, step |-> pc, colId |-> colls[1], docId |-> docs[1],
     pageIds |-> IF kind = "LA"
                 THEN [i \in 1..Len(selected) |-> selected[i].pageId] ELSE <<>>,
     pages |-> IF kind = "HTR"
               THEN [i \in 1..Len(selected) |-> selected[i].pageNr] ELSE <<>>,
     ok |-> ok, jobId |-> id,
     polled |-> FALSE, pollId |-> 0, observed |-> "none", returned |-> FALSE]

IsJobRequest(r) == r.req \in {"LA", "HTR"}

\* get_sid
Login(o) ==
    /\ pc = "login"
    /\ pc' = IF o = "ok" THEN "list_collections" ELSE DriverAfterRaise
    /\ LogRequest([req |-> "login"])
    /\ UNCHANGED <<flags, colls, docs, curPages, selected, runPc, jobid,
                   jobStatus, jsN, jobs>>

\* list_collections and the COLL_DROP filter
ListCollections(o) ==
    /\ pc = "list_collections"
    /\ LogRequest([req |-> "list_collections"])
    /\ IF o = "ok"
       THEN LET coll == Drop(Collections, COLL_DROP)
            IN  /\ colls' = coll
                /\ pc' = IF coll = <<>> THEN "finished" ELSE "list_documents"
       ELSE pc' = DriverAfterRaise /\ UNCHANGED colls
    /\ UNCHANGED <<flags, docs, curPages, selected, runPc, jobid, jobStatus,
                   jsN, jobs>>

\* list_documents of the current collection and the document filter
ListDocuments(o) ==
    /\ pc = "list_documents"
    /\ LogRequest([req |-> "list_documents", colId |-> colls[1]])
    /\ IF o = "ok"
       THEN LET ds == Keep(DocumentsOf(colls[1]), DocFilter)
                to == IF ds = <<>> THEN AfterDocument(colls, <<>>)
                      ELSE Goto("fulldoc", colls, ds)
            IN  pc' = to.pc /\ colls' = to.colls /\ docs' = to.docs
       ELSE pc' = DriverAfterRaise /\ UNCHANGED <<colls, docs>>
    /\ UNCHANGED <<flags, curPages, selected, runPc, jobid, jobStatus, jsN, jobs>>

\* get_document_content of the current document, the page selection, and
\* "if not page_nr_selected: continue"
GetDocumentContent(o, pages) ==
    /\ pc = "fulldoc"
    /\ LogRequest([req |-> "fulldoc", colId |-> colls[1], docId |-> docs[1]])
    /\ IF o = "ok"
       THEN LET sel == SelectPages(pages, ShippedConfig)
                to == IF sel = <<>> THEN AfterDocument(colls, docs)
                      ELSE StepFrom(flags, 1, colls, docs)
            IN  /\ curPages' = pages /\ selected' = sel
                /\ pc' = to.pc /\ colls' = to.colls /\ docs' = to.docs
       ELSE /\ pc' = DriverAfterRaise
            /\ UNCHANGED <<colls, docs, curPages, selected>>
    /\ UNCHANGED <<flags, runPc, jobid, jobStatus, jsN, jobs>>

\* the POST of run_layout_analysis / run_text_recognition: a response that is
\* not OK raises; an OK response carries the id of the job just created
Submit(kind, o) ==
    /\ runPc = "idle"
    /\ IF o = "ok"
       THEN /\ jobs' = Append(jobs, "CREATED")
            /\ LogRequest(JobRequest(kind, TRUE, Len(jobs) + 1))
            /\ jobid' = Len(jobs) + 1
            /\ runPc' = "poll" /\ jsN' = PollRetry /\ jobStatus' = "none"
            /\ UNCHANGED <<pc, colls, docs>>
       ELSE LET to == AfterJobError(colls, docs)
            IN  /\ LogRequest(JobRequest(kind, FALSE, 0))
                /\ pc' = to.pc /\ colls' = to.colls /\ docs' = to.docs
                /\ UNCHANGED <<jobs, jobid, runPc, jsN, jobStatus>>
    /\ UNCHANGED <<flags, curPages, selected>>

SubmitLayoutAnalysis(o) == pc \in {"p2pala", "linefinder"} /\ Submit("LA", o)

SubmitTextRecognition(o) == pc = "htr" /\ Submit("HTR", o)

\* one request of get_job_status(jobid, sid) inside the polling loop
PollRequest(o) ==
    /\ runPc = "poll"
    /\ (o = "ok" => jobid \in 1..Len(jobs))
    /\ LET r == GetJobStatus(jsN, o, IF o = "ok" THEN jobs[jobid] ELSE "none")
           last == Len(reqLog)
           noted == [reqLog[last] EXCEPT !.polled = TRUE, !.pollId = jobid]
       IN  CASE r.result = Pending ->
                    /\ jsN' = r.n
                    /\ reqLog' = [reqLog EXCEPT ![last] = noted]
                    /\ UNCHANGED <<pc, colls, docs, runPc, jobStatus>>
             [] r.result.kind = "raise" ->
                    LET to == AfterJobError(colls, docs)
                    IN  /\ pc' = to.pc /\ colls' = to.colls /\ docs' = to.docs
                        /\ runPc' = "idle"
                        /\ reqLog' = [reqLog EXCEPT ![last] = noted]
                        /\ UNCHANGED <<jsN, jobStatus>>
             [] r.result.kind = "return" ->
                    /\ jobStatus' = r.result.state
                    /\ IF LoopExit(r.result.state)
                       THEN LET to == StepFrom(flags, StepIndex(pc) + 1, colls, docs)
                            IN  /\ runPc' = "idle"
                                /\ pc' = to.pc /\ colls' = to.colls
                                /\ docs' = to.docs
                                /\ reqLog' = [reqLog EXCEPT ![last] =
                                     [noted EXCEPT !.returned = TRUE,
                                                   !.observed = r.result.state]]
                       ELSE /\ runPc' = "sleep"
                            /\ reqLog' = [reqLog EXCEPT ![last] =
                                 [noted EXCEPT !.observed = r.result.state]]
                            /\ UNCHANGED <<pc, colls, docs>>
                    /\ UNCHANGED jsN
    /\ UNCHANGED <<flags, curPages, selected, jobid, jobs>>

\* time.sleep(10) and the next turn of "while True"
Sleep ==
    /\ runPc = "sleep"
    /\ runPc' = "poll" /\ jsN' = PollRetry
    /\ UNCHANGED <<flags, pc, colls, docs, curPages, selected, jobid, jobStatus,
                   jobs, reqLog>>

\* the platform works on a job
JobProgress ==
    /\ \E id \in 1..Len(jobs) : \E st \in NextJobStates(jobs[id]) :
            jobs' = [jobs EXCEPT ![id] = st]
    /\ UNCHANGED <<flags, pc, colls, docs, curPages, selected, runPc, jobid,
                   jobStatus, jsN, reqLog>>

InitDriver ==
    /\ RetryIdle /\ PviIdle /\ SelIdle /\ LaterIdle
    /\ flags \in [p2pala : BOOLEAN, linefinder : BOOLEAN, htr : BOOLEAN]
    /\ pc = "login"
    /\ colls = <<>> /\ docs = <<>> /\ curPages = <<>> /\ selected = <<>>
    /\ runPc = "idle" /\ jobid = 0 /\ jobStatus = "none" /\ jsN = 0
    /\ jobs = <<>> /\ reqLog = <<>>

otherThanDriver == <<retryVars, pviVars, selVars, laterVars>>

NextDriver ==
    \/ \E o \in {"ok", "eOther"} : Login(o) /\ UNCHANGED otherThanDriver
    \/ \E o \in {"ok", "eOther"} : ListCollections(o) /\ UNCHANGED otherThanDriver
    \/ \E o \in {"ok", "eOther"} : ListDocuments(o) /\ UNCHANGED otherThanDriver
    \/ /\ pc = "fulldoc"
       /\ \E o \in {"ok", "eOther"} : \E pages \in PageLists(docs[1]) :
            GetDocumentContent(o, pages)
       /\ UNCHANGED otherThanDriver
    \/ \E o \in {"ok", "eOther"} : SubmitLayoutAnalysis(o) /\ UNCHANGED otherThanDriver
    \/ \E o \in {"ok", "eOther"} : SubmitTextRecognition(o) /\ UNCHANGED otherThanDriver
    \/ \E o \in HttpOutcomes : PollRequest(o) /\ UNCHANGED otherThanDriver
    \/ Sleep /\ UNCHANGED otherThanDriver
    \/ JobProgress /\ UNCHANGED otherThanDriver

SpecDriver == InitDriver /\ [][NextDriver]_vars


(***************************************************************************)
(* The claims.                                                             *)
(***************************************************************************)
JobRequests == {i \in 1..Len(reqLog) : IsJobRequest(reqLog[i])}

\* C1: run_layout_analysis and run_text_recognition return normally only
\* after a status poll for the job id that their own submission returned
\* reported FINISHED; the state they saw last when they return is FINISHED.
C1_ReturnOnlyAfterFinished ==
    \A i \in JobRequests :
        reqLog[i].returned =>
            /\ reqLog[i].ok /\ reqLog[i].polled
            /\ reqLog[i].pollId = reqLog[i].jobId
            /\ reqLog[i].observed = "FINISHED"

\* a layout analysis and a text recognition have both returned
C1_Witness ==
    /\ \E i \in JobRequests : reqLog[i].req = "LA" /\ reqLog[i].returned
    /\ \E i \in JobRequests : reqLog[i].req = "HTR" /\ reqLog[i].returned

\* C2: once the job was observed in a terminal state (FINISHED, FAILED or
\* CANCELED) the polling loop issues no further status request.
C2_PollingStopsAtTerminalState ==
    [][~(jobStatus \in TerminalStates /\ \E o \in HttpOutcomes : PollRequest(o))]_vars

\* C3: a submission that is answered with a non-success status is followed
\* by no status poll and by no further request of the run: the run is over.
C3_FailedSubmissionHaltsRun ==
    \A i \in JobRequests :
        ~reqLog[i].ok =>
            /\ ~reqLog[i].polled
            /\ i = Len(reqLog)
            /\ pc = "aborted" /\ runPc = "idle"

\* the submission of the first step of the first document failed, with a
\* later step enabled and a further collection waiting
C3_Witness ==
    /\ reqLog # <<>> /\ Len(reqLog) \in JobRequests
    /\ ~reqLog[Len(reqLog)].ok
    /\ reqLog[Len(reqLog)].step = "p2pala" /\ flags.htr
    /\ Len(colls) > 1

\* C4: get_page_xml(url, sid, n_retry) issues at most n_retry + 1 requests,
\* returns the text of the first successful response, and raises when the
\* first n_retry + 1 requests all failed.
C4_GetPageXmlBudget ==
    fn = "get_page_xml" =>
        /\ Len(log) <= n0 + 1
        /\ result.kind = "return" =>
                /\ log[result.req] = "ok"
                /\ \A j \in 1..(result.req - 1) : log[j] # "ok"
        /\ (Len(log) >= n0 + 1 /\ \A j \in 1..(n0 + 1) : log[j] # "ok")
                => result.kind = "raise"

\* C5: every call of get_page_xml (both modules), get_job_status and
\* download_pagexml ends after finitely many requests, whatever the server
\* answers.
C5_RetryCallsTerminate == <>(result # Pending)

\* the legacy get_page_xml, answered 500 again and again, was ended by the
\* interpreter
C5_Witness ==
    /\ fn = "get_page_xml_legacy" /\ result = Raise("RecursionError")
    /\ legRoot = "try" /\ legNesting = Nesting(MaxNesting, MaxNesting)

\* C6: get_page_xml returns nothing but the text of a successful response,
\* and download_pagexml returns normally only with the file completely
\* written; every other call ends by raising.
C6_FailedDownloadSurfaces ==
    result.kind = "return" =>
        /\ fn \in {"get_page_xml", "get_page_xml_legacy"} => result.value = "text"
        /\ fn = "download_pagexml" => dlFile = "complete"

\* ---- page selection
SelNr(i) == selPages[i].pageNr
SelStatus(i) == selPages[i].transcripts[1].status
IsSelected(i) ==
    \E k \in 1..Len(selResult.selected) : selResult.selected[k].pageNr = SelNr(i)
\* the page is excluded on its own account
InDropSets(i) ==
    SelNr(i) \in selConfig.dropNr \/ SelStatus(i) \in selConfig.dropStatus
CutoffDisabledRule ==
    ~selConfig.following =>
        \A i \in 1..Len(selPages) : ~IsSelected(i) <=> InDropSets(i)

\* C7: with the cutoff enabled every page after a page that is excluded by
\* page number or by status is excluded; with the cutoff disabled exactly
\* the pages of the two exclusion sets are excluded.
C7_CutoffAfterAnyExcludedPage ==
    selResult # Pending =>
        /\ selConfig.following =>
                \A i, j \in 1..Len(selPages) :
                    (InDropSets(j) /\ SelNr(i) > SelNr(j)) => ~IsSelected(i)
        /\ CutoffDisabledRule

\* ---- the driver's current document
LastFulldoc ==
    CHOOSE i \in 1..Len(reqLog) :
        /\ reqLog[i].req = "fulldoc"
        /\ \A j \in (i + 1)..Len(reqLog) : reqLog[j].req # "fulldoc"

\* C8: no job is submitted with an empty page selection; and a 3-page
\* document whose page 1 is excluded by page number and whose page 2 has the
\* latest status DONE selects, with the cutoff enabled, no page and gets no
\* job.
C8_NoJobWithoutPages ==
    /\ \A i \in JobRequests :
            /\ reqLog[i].req = "LA" => reqLog[i].pageIds # <<>>
            /\ reqLog[i].req = "HTR" => reqLog[i].pages # <<>>
    /\ (/\ Len(curPages) = 3
        /\ 1 \in PAGE_DROP_NR
        /\ curPages[2].transcripts[1].status = "DONE"
        /\ "DONE" \in PAGE_DROP_STATUS
        /\ PAGE_DROP_STATUS_FOLLOWING)
       => /\ selected = <<>>
          /\ \A i \in JobRequests :
                i > LastFulldoc => reqLog[i].docId # reqLog[LastFulldoc].docId

\* C9: with the keyword 'latest' get_page_version_index returns index 0
\* for every transcript list.
C9_LatestIsIndexZero ==
    (pviResult # Pending /\ pviKeyword = StrKeyword(Latest))
        => pviResult = ReturnIndex(0)

\* 'latest' was resolved on a list whose first transcript has no toolName,
\* and on the empty list
C9_Witness ==
    /\ pviResult = ReturnIndex(0) /\ pviKeyword = StrKeyword(Latest)
    /\ pviModule = "htr_model_validation"
    /\ Len(pviTranscripts) = 2 /\ "toolName" \notin DOMAIN pviTranscripts[1]

\* the keyword is a substring of s
Contains(s, sub) ==
    \E off \in 0..(Len(s) - Len(sub)) : \A i \in 1..Len(sub) : sub[i] = s[off + i]

\* C10: a keyword (other than 'latest') that is contained in no toolName
\* and equals no status makes get_page_version_index return None; it does
\* not raise.
C10_NoMatchReturnsNone ==
    (/\ pviResult # Pending
     /\ pviKeyword.isStr /\ pviKeyword.chars # Latest
     /\ \A i \in 1..Len(pviTranscripts) :
            /\ pviTranscripts[i].status # pviKeyword.chars
            /\ "toolName" \in DOMAIN pviTranscripts[i]
                    => ~Contains(pviTranscripts[i].toolName, pviKeyword.chars))
        => pviResult = ReturnNone

\* transcript i matches the keyword as the documentation describes it: the
\* keyword is part of its toolName, or is its status
KeywordMatches(i) ==
    \/ pviTranscripts[i].status = pviKeyword.chars
    \/ /\ "toolName" \in DOMAIN pviTranscripts[i]
       /\ Contains(pviTranscripts[i].toolName, pviKeyword.chars)

\* C12: for a keyword other than 'latest' get_page_version_index returns
\* the smallest index whose transcript has the keyword in its toolName or as
\* its status (and None when there is no such transcript).
C12_FirstMatchingIndex ==
    (/\ pviResult # Pending
     /\ pviKeyword.isStr /\ pviKeyword.chars # Latest)
        => pviResult =
            IF \E i \in 1..Len(pviTranscripts) : KeywordMatches(i)
            THEN ReturnIndex((CHOOSE i \in 1..Len(pviTranscripts) :
                                /\ KeywordMatches(i)
                                /\ \A j \in 1..(i - 1) : ~KeywordMatches(j)) - 1)
            ELSE ReturnNone


(***************************************************************************)
(* Part 4.  The metric evaluator: htr_model_validation.main, and the same  *)
(* loop in the older script validateHtrModel.                              *)
(*                                                                         *)
(* A page is its list of transcripts, the latest first.  A transcript      *)
(* carries, besides toolName and status, the text regions get_textregions  *)
(* returns for its page xml (already filtered by type, regions without     *)
(* text lines left out).  A text line is identified by the page, the       *)
(* transcript index, the region and its position, so that the inputs of an *)
(* error-rate computation show where each line came from.  The value of    *)
(* the error rate itself is computed by the evaluate library and is not    *)
(* modelled; the model keeps the lists handed to it.                       *)
(***************************************************************************)
\* most pages of a document
MaxEvalPages == 2

Region(id, type, n) == [id |-> id, type |-> type, n |-> n]
TrOneLine == <<Region("r1", "paragraph", 1)>>
TrTwoLines == <<Region("r1", "paragraph", 2)>>
TrTwoRegions == <<Region("r1", "paragraph", 1), Region("r2", "header", 1)>>
TrHeader == <<Region("r2", "header", 1)>>
\* the regions of the first and of the second transcript of a page
RegionPairs ==
    {<<TrTwoRegions, TrHeader>>, <<TrOneLine, TrTwoLines>>,
     <<<<>>, TrOneLine>>, <<TrTwoRegions, TrTwoRegions>>}

WithTool(tool, status, regions) ==
    [toolName |-> tool, status |-> status, regions |-> regions]
NoTool(status, regions) == [status |-> status, regions |-> regions]

EvalPagesOf(rp) ==
    {<<WithTool(<<"b">>, StatusGT, rp[1]), WithTool(<<"a", "b">>, StatusNew, rp[2])>>,
     <<NoTool(StatusGT, rp[1]), WithTool(<<"b">>, StatusGT, rp[2])>>,
     <<WithTool(<<"a", "b">>, StatusGT, rp[1])>>,
     <<WithTool(<<"b">>, StatusNew, rp[1]), NoTool(StatusNew, rp[2])>>}
EvalPages == UNION {EvalPagesOf(rp) : rp \in RegionPairs}
EvalDocs == UNION {[1..k -> EvalPages] : k \in 1..MaxEvalPages}

\* REFERENCE_VERSION, PREDICTION_VERSION, FILTER_STATUS ({} stands for None)
EvalConfig(ref, pred, filter) ==
    [reference |-> StrKeyword(ref), prediction |-> StrKeyword(pred),
     filter |-> filter]
EvalConfigs ==
    {EvalConfig(Latest, <<"b">>, {StatusGT}),
     EvalConfig(StatusGT, <<"a">>, {}),
     EvalConfig(<<"a">>, <<"b">>, {}),
     EvalConfig(Latest, <<"a", "a">>, {StatusGT})}

EvalPageId(nr) == PageId(1, nr)

\* the text lines of region r of transcript ts of the page
TextLines(pageid, ts, r) == [k \in 1..r.n |-> <<pageid, ts, r.id, k>>]

WarnSameVersion == "Reference and prediction transcript are the same."
WarnNoReferenceRegions == "No non-empty textregions (of selected types) found for reference transcript."
WarnNoPredictionRegions == "No non-empty textregions (of selected types) found for prediction transcript."
WarnNoPredictionRegion == "No prediction transcript found for this textregion."
WarnLength == "Prediction and reference transcript do not have same length."

\* a row of the textregions table
Row(pageid, rid, type, tref, tpred, entry) ==
    [pageid |-> pageid, textregionid |-> rid, type |-> type,
     text_reference |-> tref, text_prediction |-> tpred,
     is_valid |-> entry.is_valid, warning_message |-> entry.warning_message]
Entry(valid, warning) == [is_valid |-> valid, warning_message |-> warning]
\* a row written before the region loop: the region columns are empty
PageRow(pageid, warning) ==
    Row(pageid, "none", "none", <<>>, <<>>, Entry(FALSE, warning))

PageVersionIndex(module, ts, keyword) ==
    IF module = "htr_model_validation"
    THEN GetPageVersionIndex(ts, keyword)
    ELSE GetPageVersionIndexOld(ts, keyword)

\* new_entry['is_valid'] and ['warning_message'] at the start of one pass of
\* the region loop: whatever the page-level checks left in entry is replaced
RegionEntry(entry) == Entry(TRUE, "none")

\* one pass of the loop over the reference regions
RegionRowAbsentStaysValid(pageid, refIndex, predIndex, r, preds, entry) ==
    LET e == RegionEntry(entry)
        tref == TextLines(pageid, refIndex, r)
        found == {k \in 1..Len(preds) : preds[k].id = r.id}
    IN  IF found = {}
        THEN Row(pageid, r.id, r.type, tref, <<>>, e)
        ELSE LET k == CHOOSE k \in found : \A j \in found : k <= j
                 tpred == TextLines(pageid, predIndex, preds[k])
             IN  IF Len(tref) # Len(tpred)
                 THEN Row(pageid, r.id, r.type, tref, tpred, Entry(FALSE, WarnLength))
                 ELSE Row(pageid, r.id, r.type, tref, tpred, e)

RegionRowNoLengthCheck(pageid, refIndex, predIndex, r, preds, entry) ==
    LET e == RegionEntry(entry)
        tref == TextLines(pageid, refIndex, r)
        found == {k \in 1..Len(preds) : preds[k].id = r.id}
    IN  IF found = {}
        THEN Row(pageid, r.id, r.type, tref, <<>>,
                 Entry(FALSE, WarnNoPredictionRegion))
        ELSE LET k == CHOOSE k \in found : \A j \in found : k <= j
             IN  Row(pageid, r.id, r.type, tref,
                     TextLines(pageid, predIndex, preds[k]), e)

RegionRow(pageid, refIndex, predIndex, r, preds, entry) ==
    LET e == RegionEntry(entry)
        tref == TextLines(pageid, refIndex, r)
        found == {k \in 1..Len(preds) : preds[k].id = r.id}
    IN  IF found = {}
        THEN Row(pageid, r.id, r.type, tref, <<>>,
                 Entry(FALSE, WarnNoPredictionRegion))
        ELSE LET k == CHOOSE k \in found : \A j \in found : k <= j
                 tpred == TextLines(pageid, predIndex, preds[k])
             IN  IF Len(tref) # Len(tpred)
                 THEN Row(pageid, r.id, r.type, tref, tpred, Entry(FALSE, WarnLength))
                 ELSE Row(pageid, r.id, r.type, tref, tpred, e)

RECURSIVE RegionRows(_, _, _, _, _, _, _)
RegionRows(pageid, refIndex, predIndex, refs, preds, entry, i) ==
    IF i > Len(refs) THEN <<>>
    ELSE <<RegionRow(pageid, refIndex, predIndex, refs[i], preds, entry)>>
            \o RegionRows(pageid, refIndex, predIndex, refs, preds, entry, i + 1)


\* what reading one page gives: the exception that ends the run ("none" if
\* there is none), the rows appended to the table, the page xml requested
PageRead(exc, rows, fetched) == [exc |-> exc, rows |-> rows, fetched |-> fetched]
Fetch(nr, ts, o) == [req |-> "pagexml", pageNr |-> nr, version |-> ts, ok |-> o = "ok"]
FetchOutcomes == {"ok", "fail"}

\* the body of the loop over the pages, for page page_nr with transcripts ts.
\* oRef, oPred: whether get_textregions gets the page xml of the reference
\* and of the prediction transcript.  The warning logged for a keyword that
\* resolves to None formats transcripts[None]['tsId'], which raises
\* TypeError before the row is written.
ReadPage(module, config, ts, nr, oRef, oPred) ==
    LET pageid == EvalPageId(nr)
        rref == PageVersionIndex(module, ts, config.reference)
    IN  IF rref.kind = "raise" THEN PageRead(rref.exc, <<>>, <<>>)
        ELSE IF rref = ReturnNone THEN PageRead("TypeError", <<>>, <<>>)
        ELSE
        LET refIndex == rref.idx
            reference_transcript == ts[refIndex + 1]
        IN  IF config.filter # {} /\ reference_transcript.status \notin config.filter
            THEN PageRead("none", <<>>, <<>>)
            ELSE
            LET rpred == PageVersionIndex(module, ts, config.prediction)
            IN  IF rpred.kind = "raise" THEN PageRead(rpred.exc, <<>>, <<>>)
                ELSE IF rpred = ReturnNone THEN PageRead("TypeError", <<>>, <<>>)
                ELSE
                LET predIndex == rpred.idx
                    prediction_transcript == ts[predIndex + 1]
                    entry == IF refIndex = predIndex
                             THEN Entry(FALSE, WarnSameVersion)
                             ELSE Entry(TRUE, "none")
                    f1 == <<Fetch(nr, refIndex, oRef)>>
                    f2 == f1 \o <<Fetch(nr, predIndex, oPred)>>
                IN  IF oRef # "ok" THEN PageRead("FetchError", <<>>, f1)
                    ELSE IF reference_transcript.regions = <<>>
                    THEN PageRead("none", <<PageRow(pageid, WarnNoReferenceRegions)>>, f1)
                    ELSE IF oPred # "ok" THEN PageRead("FetchError", <<>>, f2)
                    ELSE IF prediction_transcript.regions = <<>>
                    THEN PageRead("none", <<PageRow(pageid, WarnNoPredictionRegions)>>, f2)
                    ELSE PageRead("none",
                                  RegionRows(pageid, refIndex, predIndex,
                                             reference_transcript.regions,
                                             prediction_transcript.regions,
                                             entry, 1),
                                  f2)

\* ---- the error-rate computations
\* the two lists handed to calculate_metric
MetricInput(refs, preds) == [references |-> refs, predictions |-> preds]
RECURSIVE ExtendAll(_, _)
ExtendAll(rows, i) ==
    IF i > Len(rows) THEN MetricInput(<<>>, <<>>)
    ELSE LET rest == ExtendAll(rows, i + 1)
         IN  MetricInput(rows[i].text_reference \o rest.references,
                         rows[i].text_prediction \o rest.predictions)

RECURSIVE ExtendValid(_, _)
ExtendValid(rows, i) ==
    IF i > Len(rows) THEN MetricInput(<<>>, <<>>)
    ELSE LET rest == ExtendValid(rows, i + 1)
         IN  IF rows[i].is_valid
             THEN MetricInput(rows[i].text_reference \o rest.references,
                              rows[i].text_prediction \o rest.predictions)
             ELSE rest

RECURSIVE RowsWhere(_, _, _, _)
RowsWhere(rows, column, value, i) ==
    IF i > Len(rows) THEN <<>>
    ELSE (IF rows[i][column] = value THEN <<rows[i]>> ELSE <<>>)
            \o RowsWhere(rows, column, value, i + 1)

GlobalInput(rows) == ExtendValid(rows, 1)

\* groupby('type') leaves out the rows without a type
TypeInputs(rows) ==
    [ty \in {rows[i].type : i \in 1..Len(rows)} \ {"none"} |->
        ExtendValid(RowsWhere(rows, "type", ty, 1), 1)]

PageInputIgnoringValidity(rows, pageid) ==
    ExtendAll(RowsWhere(rows, "pageid", pageid, 1), 1)
PageInput(rows, pageid) == ExtendValid(RowsWhere(rows, "pageid", pageid, 1), 1)
\* cer_pages / wer_pages: the pages whose list of predictions is not empty
PageInputs(rows) ==
    [pageid \in {p \in {rows[i].pageid : i \in 1..Len(rows)} :
                    PageInput(rows, p).predictions # <<>>} |->
        PageInput(rows, pageid)]

\* the per-region error rates: computed for the valid rows, NaN for the others
RegionInputs(rows) ==
    [i \in {j \in 1..Len(rows) : rows[j].is_valid} |->
        MetricInput(rows[i].text_reference, rows[i].text_prediction)]

Aggregates(rows) ==
    [global |-> GlobalInput(rows), types |-> TypeInputs(rows),
     pages |-> PageInputs(rows), regions |-> RegionInputs(rows)]

\* an error rate is asked for an empty list of lines
EmptyMetric(rows) ==
    \/ GlobalInput(rows).references = <<>>
    \/ \E ty \in DOMAIN TypeInputs(rows) : TypeInputs(rows)[ty].references = <<>>
EmptyMetricOutcomes == {"value", "raise"}


\* ---- the run
EvalAbort(exc) ==
    /\ evPc' = "aborted" /\ evExc' = exc

EvalLogin(o) ==
    /\ evPc = "login"
    /\ evLog' = Append(evLog, [req |-> "login", pageNr |-> 0, version |-> 0,
                               ok |-> o = "ok"])
    /\ IF o = "ok" THEN evPc' = "fulldoc" /\ evExc' = evExc
       ELSE EvalAbort(RequestError(o))
    /\ UNCHANGED <<evModule, evConfig, evDoc, evNext, evRows, evAgg>>

EvalGetDocument(o) ==
    /\ evPc = "fulldoc"
    /\ evLog' = Append(evLog, [req |-> "fulldoc", pageNr |-> 0, version |-> 0,
                               ok |-> o = "ok"])
    /\ IF o = "ok" THEN evPc' = "read" /\ evNext' = 1 /\ evExc' = evExc
       ELSE EvalAbort(RequestError(o)) /\ evNext' = evNext
    /\ UNCHANGED <<evModule, evConfig, evDoc, evRows, evAgg>>

EvalReadPageIgnoringFilter(oRef, oPred) ==
    /\ evPc = "read" /\ evNext <= Len(evDoc)
    /\ LET r == ReadPage(evModule, [evConfig EXCEPT !.filter = {}],
                         evDoc[evNext], evNext, oRef, oPred)
       IN  /\ evRows' = evRows \o r.rows
           /\ evLog' = evLog \o r.fetched
           /\ IF r.exc # "none" THEN EvalAbort(r.exc) /\ evNext' = evNext
              ELSE /\ evNext' = evNext + 1
                   /\ evPc' = IF evNext = Len(evDoc) THEN "aggregate" ELSE "read"
                   /\ evExc' = evExc
    /\ UNCHANGED <<evModule, evConfig, evDoc, evAgg>>

EvalReadPage(oRef, oPred) ==
    /\ evPc = "read" /\ evNext <= Len(evDoc)
    /\ LET r == ReadPage(evModule, evConfig, evDoc[evNext], evNext, oRef, oPred)
       IN  /\ evRows' = evRows \o r.rows
           /\ evLog' = evLog \o r.fetched
           /\ IF r.exc # "none" THEN EvalAbort(r.exc) /\ evNext' = evNext
              ELSE /\ evNext' = evNext + 1
                   /\ evPc' = IF evNext = Len(evDoc) THEN "aggregate" ELSE "read"
                   /\ evExc' = evExc
    /\ UNCHANGED <<evModule, evConfig, evDoc, evAgg>>

\* everything after the loop over the pages: an empty table ends the run
\* with a bare raise; otherwise the error rates are computed and written
EvalAggregate(em) ==
    /\ evPc = "aggregate"
    /\ IF evRows = <<>> THEN EvalAbort("RuntimeError") /\ evAgg' = evAgg
       ELSE IF EmptyMetric(evRows) /\ em = "raise"
       THEN EvalAbort("MetricError") /\ evAgg' = evAgg
       ELSE evPc' = "finished" /\ evAgg' = Aggregates(evRows) /\ evExc' = evExc
    /\ UNCHANGED <<evModule, evConfig, evDoc, evNext, evRows, evLog>>

InitEval ==
    /\ RetryIdle /\ PviIdle /\ SelIdle /\ DrvIdle /\ LgIdle /\ CiIdle /\ DnIdle /\ StIdle /\ PlIdle /\ TxIdle /\ RcIdle
    /\ evModule \in PviModules
    /\ evConfig \in EvalConfigs
    /\ evDoc \in EvalDocs
    /\ evPc = "login" /\ evNext = 0 /\ evRows = <<>> /\ evAgg = <<>>
    /\ evExc = "none" /\ evLog = <<>>

otherThanEval == <<retryVars, pviVars, selVars, drvVars, lgVars, ciVars, dnVars, stVars, plVars, txVars, rcVars>>

NextEval ==
    \/ \E o \in RequestOutcomes : EvalLogin(o) /\ UNCHANGED otherThanEval
    \/ \E o \in RequestOutcomes : EvalGetDocument(o) /\ UNCHANGED otherThanEval
    \/ \E oRef, oPred \in FetchOutcomes :
            EvalReadPage(oRef, oPred) /\ UNCHANGED otherThanEval
    \/ \E em \in EmptyMetricOutcomes : EvalAggregate(em) /\ UNCHANGED otherThanEval

SpecEval == InitEval /\ [][NextEval]_vars


(***************************************************************************)
(* The claims about the metric evaluator.                                  *)
(***************************************************************************)
\* page nr was read to its end / the run ended while reading page nr
EvProcessed(nr) == nr < evNext
EvAbortedOn(nr) == evPc = "aborted" /\ evNext = nr
EvRows(nr) == {i \in 1..Len(evRows) : evRows[i].pageid = EvalPageId(nr)}
\* the transcript index the reference and the prediction keyword resolve to
EvReference(nr) == PageVersionIndex(evModule, evDoc[nr], evConfig.reference)
EvPrediction(nr) == PageVersionIndex(evModule, evDoc[nr], evConfig.prediction)
EvResolved(r) == r.kind = "return" /\ r # ReturnNone
EvPassesFilter(nr) ==
    \/ evConfig.filter = {}
    \/ evDoc[nr][EvReference(nr).idx + 1].status \in evConfig.filter
\* the reference keyword resolves to no transcript, or the prediction
\* keyword does when it is looked up
EvUnresolved(nr) ==
    \/ EvReference(nr) = ReturnNone
    \/ /\ EvResolved(EvReference(nr)) /\ EvPassesFilter(nr)
       /\ EvPrediction(nr) = ReturnNone
\* both keywords resolve and the page passes the status filter
EvCompared(nr) ==
    /\ EvResolved(EvReference(nr)) /\ EvPassesFilter(nr)
    /\ EvResolved(EvPrediction(nr))

\* C11: a page whose reference or prediction keyword resolves to no
\* transcript gets a row with is_valid = false and a warning message, and
\* the run does not end on that page.
C11_UnresolvedVersionIsRecorded ==
    \A nr \in 1..Len(evDoc) :
        (EvUnresolved(nr) /\ (EvProcessed(nr) \/ EvAbortedOn(nr)))
            => /\ ~EvAbortedOn(nr)
               /\ \E i \in EvRows(nr) :
                    /\ ~evRows[i].is_valid
                    /\ evRows[i].warning_message \in
                        {"No reference transcript version found.",
                         "No prediction transcript version found."}

\* the lines of row i
RowLines(i) ==
    {evRows[i].text_reference[k] : k \in 1..Len(evRows[i].text_reference)}
        \cup {evRows[i].text_prediction[k] : k \in 1..Len(evRows[i].text_prediction)}
InputLines(m) ==
    {m.references[k] : k \in 1..Len(m.references)}
        \cup {m.predictions[k] : k \in 1..Len(m.predictions)}
\* every line that enters the global, a per-type, a per-page or a
\* per-region error rate
AggregatedLines ==
    InputLines(evAgg.global)
        \cup UNION {InputLines(evAgg.types[ty]) : ty \in DOMAIN evAgg.types}
        \cup UNION {InputLines(evAgg.pages[p]) : p \in DOMAIN evAgg.pages}
        \cup UNION {InputLines(evAgg.regions[i]) : i \in DOMAIN evAgg.regions}

\* C13: when the reference and the prediction keyword resolve to the same
\* transcript index, no row of the page is valid and no line of the page
\* enters an error-rate computation.
C13_SameVersionIsInvalid ==
    \A nr \in 1..Len(evDoc) :
        (/\ EvProcessed(nr) /\ EvCompared(nr)
         /\ EvReference(nr).idx = EvPrediction(nr).idx)
            => /\ \A i \in EvRows(nr) : ~evRows[i].is_valid
               /\ evPc = "finished" =>
                    \A i \in EvRows(nr) : RowLines(i) \cap AggregatedLines = {}


\* the page reaches the loop over the reference regions: both keywords
\* resolve and both transcripts have text regions
EvRefRegions(nr) == evDoc[nr][EvReference(nr).idx + 1].regions
EvPredRegions(nr) == evDoc[nr][EvPrediction(nr).idx + 1].regions
EvInRegionLoop(nr) ==
    EvCompared(nr) /\ EvRefRegions(nr) # <<>> /\ EvPredRegions(nr) # <<>>
\* the rows written for reference region k of page nr
EvRegionRows(nr, k) ==
    {i \in EvRows(nr) : evRows[i].textregionid = EvRefRegions(nr)[k].id}
EvAbsent(nr, k) ==
    \A j \in 1..Len(EvPredRegions(nr)) :
        EvPredRegions(nr)[j].id # EvRefRegions(nr)[k].id

EvMatch(nr, k) ==
    CHOOSE j \in 1..Len(EvPredRegions(nr)) :
        /\ EvPredRegions(nr)[j].id = EvRefRegions(nr)[k].id
        /\ \A h \in 1..(j - 1) : EvPredRegions(nr)[h].id # EvRefRegions(nr)[k].id

\* C15: a reference region is compared with the prediction region of the
\* same id; when the two have different numbers of lines the row is invalid,
\* carries a warning and none of its lines enters an error rate; when they
\* have the same number of lines the row is valid.
C15_LengthMismatchIsInvalid ==
    \A nr \in 1..Len(evDoc) :
        (EvProcessed(nr) /\ EvCompared(nr) /\ EvInRegionLoop(nr)) =>
            \A k \in 1..Len(EvRefRegions(nr)) :
                ~EvAbsent(nr, k) =>
                    \A i \in EvRegionRows(nr, k) :
                        /\ \A l \in 1..Len(evRows[i].text_prediction) :
                                evRows[i].text_prediction[l][3] = evRows[i].textregionid
                        /\ Len(evRows[i].text_prediction) = EvPredRegions(nr)[EvMatch(nr, k)].n
                        /\ Len(evRows[i].text_reference) = EvRefRegions(nr)[k].n
                        /\ evRows[i].is_valid <=>
                                EvRefRegions(nr)[k].n = EvPredRegions(nr)[EvMatch(nr, k)].n
                        /\ ~evRows[i].is_valid =>
                                /\ evRows[i].warning_message = WarnLength
                                /\ evPc = "finished" =>
                                    RowLines(i) \cap AggregatedLines = {}

\* a pair with different line counts and a pair with equal line counts were
\* both recorded, and the error rates were computed
C15_Witness ==
    /\ evPc = "finished"
    /\ \E i, j \in 1..Len(evRows) :
        /\ evRows[i].warning_message = WarnLength
        /\ evRows[j].is_valid /\ evRows[j].text_prediction # <<>>

\* the lines of the valid rows of a page, in table order
RECURSIVE ValidLinesOfPage(_, _, _)
ValidLinesOfPage(pageid, column, i) ==
    IF i > Len(evRows) THEN <<>>
    ELSE (IF evRows[i].pageid = pageid /\ evRows[i].is_valid
          THEN evRows[i][column] ELSE <<>>)
            \o ValidLinesOfPage(pageid, column, i + 1)

\* C16: the per-page error rate of a page id is computed from exactly the
\* lines of the valid rows with that page id; a page without a valid row
\* has no per-page result.
C16_PageAggregateFromValidRows ==
    evPc = "finished" =>
        /\ DOMAIN evAgg.pages =
            {evRows[i].pageid : i \in {j \in 1..Len(evRows) : evRows[j].is_valid}}
        /\ \A p \in DOMAIN evAgg.pages :
            /\ evAgg.pages[p].references = ValidLinesOfPage(p, "text_reference", 1)
            /\ evAgg.pages[p].predictions = ValidLinesOfPage(p, "text_prediction", 1)

\* a page with a valid and an invalid row got a per-page result, and
\* another page with rows got none
C16_Witness ==
    /\ evPc = "finished"
    /\ \E i, j, h \in 1..Len(evRows) :
        /\ evRows[i].pageid = evRows[j].pageid
        /\ evRows[i].is_valid /\ ~evRows[j].is_valid
        /\ evRows[j].text_reference # <<>>
        /\ evRows[h].pageid \notin DOMAIN evAgg.pages

\* ===========================================================================
\* Part 5: the remote requests of one run of a batch driver, in the order the
\* driver's code issues them.  The data the requests carry is left out; what
\* is kept is which request can follow which, and what a failed one does.
\* ===========================================================================

MaxRequests == 8

BatchDrivers == {"collection_transcription", "htr_model_validation",
                 "validateHtrModel", "download_latest_pagexml",
                 "status_change", "changeStatus", "replaceCharacters"}

\* a request in the history of the run: its site, and whether it was
\* answered with status 200 ("ok") or not ("fail")
Request(site, outcome) == [site |-> site, outcome |-> outcome]

\* What a run does before it has sent a request.  The first remote call of
\* every driver is get_sid, and every driver can end before it: they all
\* open their log file (logging.basicConfig) and read user and password
\* with input() first, collection_transcription executes a bare raise when
\* a prompt is not answered with yes or no (lines 101, 111, 120), and the
\* main block of changeStatus reads its input file (line 31).
BeforeFirstRequest(driver) == {"get_sid", "aborted"}

\* Every request function but post_page_xml, update_page_status and
\* download_pagexml reads the body of a response 200 (et.fromstring and
\* find("sessionId").text, r.json(), re.search(..).group()), and the drivers
\* index what it returns: a body that is not the document expected ends the
\* run with ParseError, JSONDecodeError, AttributeError, KeyError or
\* TypeError, so "aborted" can follow every such response.

\* collection_transcription.main: what follows a request at the given site
\* (an empty listing of collections has no column colId: KeyError; a page
\* without transcripts ends the selection of the pages with IndexError; a
\* status response without a state ends get_job_status with AttributeError)
AfterCollectionTranscription(site, o) ==
    CASE site = "get_sid" ->
           IF o = "ok" THEN {"list_collections", "aborted"} ELSE {"aborted"}
      [] site = "list_collections" ->
           IF o = "ok" THEN {"list_documents", "finished", "aborted"}
           ELSE {"aborted"}
      [] site = "list_documents" ->
           IF o = "ok"
           THEN {"get_document_content", "list_documents", "finished", "aborted"}
           ELSE {"aborted"}
      [] site = "get_document_content" ->
           IF o = "ok"
           THEN {"run_layout_analysis", "run_text_recognition",
                 "get_document_content", "list_documents", "finished",
                 "aborted"}
           ELSE {"aborted"}
      [] site \in {"run_layout_analysis", "run_text_recognition"} ->
           IF o = "ok" THEN {"get_job_status", "aborted"} ELSE {"aborted"}
      [] site = "get_job_status" ->
           IF o = "ok"
           THEN {"get_job_status", "run_layout_analysis", "run_text_recognition",
                 "get_document_content", "list_documents", "finished",
                 "aborted"}
           ELSE {"get_job_status", "aborted"}

\* htr_model_validation.main and the main block of validateHtrModel
AfterEvaluator(site, o) ==
    CASE site = "get_sid" ->
           IF o = "ok" THEN {"get_document_content", "aborted"} ELSE {"aborted"}
      [] site = "get_document_content" ->
           IF o = "ok" THEN {"get_page_xml", "finished", "aborted"}
           ELSE {"aborted"}
      [] site = "get_page_xml" ->
           IF o = "ok" THEN {"get_page_xml", "finished", "aborted"}
           ELSE {"get_page_xml", "aborted"}

\* download_latest_pagexml.main (os.makedirs of the destination folder can
\* raise, and a page without transcripts has index_latest None: TypeError)
AfterDownloadLatest(site, o) ==
    CASE site = "get_sid" ->
           IF o = "ok" THEN {"list_collections", "aborted"} ELSE {"aborted"}
      [] site = "list_collections" ->
           IF o = "ok" THEN {"list_documents", "finished", "aborted"}
           ELSE {"aborted"}
      [] site = "list_documents" ->
           IF o = "ok"
           THEN {"get_document_content", "list_documents", "finished", "aborted"}
           ELSE {"aborted"}
      [] site = "get_document_content" ->
           IF o = "ok"
           THEN {"download_pagexml", "get_document_content", "list_documents",
                 "finished", "aborted"}
           ELSE {"aborted"}
      [] site = "download_pagexml" ->
           IF o = "ok"
           THEN {"download_pagexml", "get_document_content", "list_documents",
                 "finished", "aborted"}
           ELSE {"download_pagexml", "aborted"}

\* status_change.main on an input file with at least one row; get_colid
\* sends the request of list_collections, once for every collection named.
\* lut_doc has one row for every title, with the collection of the first
\* row of that title (lines 62-66): a collection whose titles all occurred
\* with an earlier collection has no document to look up, and the listing
\* of its documents is followed by the next collection's, by the first
\* update, or by the end of the run when no row got a tsid.
AfterStatusChange(site, o) ==
    CASE site = "get_sid" ->
           IF o = "ok" THEN {"list_collections", "aborted"} ELSE {"aborted"}
      [] site = "list_collections" ->
           IF o = "ok" THEN {"list_collections", "list_documents", "aborted"}
           ELSE {"aborted"}
      [] site = "list_documents" ->
           IF o = "ok"
           THEN {"get_document_content", "list_documents", "update_page_status",
                 "finished", "aborted"}
           ELSE {"aborted"}
      [] site = "get_document_content" ->
           IF o = "ok"
           THEN {"get_document_content", "list_documents", "update_page_status",
                 "finished", "aborted"}
           ELSE {"aborted"}
      [] site = "update_page_status" -> {"update_page_status", "finished"}

\* the main block of changeStatus: get_colid, the first call after the login,
\* is not a name of connectTranskribus
AfterChangeStatus(site, o) ==
    CASE site = "get_sid" -> {"aborted"}

\* the main block of replaceCharacters (get_page_xml_url raises IndexError
\* for a page without transcripts; replace_string raises re.error when a
\* matched element is not a regular expression)
AfterReplaceCharacters(site, o) ==
    CASE site = "get_sid" ->
           IF o = "ok" THEN {"list_documents", "aborted"} ELSE {"aborted"}
      [] site = "list_documents" ->
           IF o = "ok" THEN {"get_document_content", "finished", "aborted"}
           ELSE {"aborted"}
      [] site = "get_document_content" ->
           IF o = "ok"
           THEN {"get_page_xml", "get_document_content", "finished", "aborted"}
           ELSE {"aborted"}
      [] site = "get_page_xml" ->
           IF o = "ok"
           THEN {"post_page_xml", "get_page_xml", "get_document_content",
                 "finished", "aborted"}
           ELSE {"get_page_xml", "aborted"}
      [] site = "post_page_xml" ->
           IF o = "ok"
           THEN {"get_page_xml", "get_document_content", "finished", "aborted"}
           ELSE {"aborted"}

After(driver, site, o) ==
    CASE driver = "collection_transcription" -> AfterCollectionTranscription(site, o)
      [] driver \in {"htr_model_validation", "validateHtrModel"} ->
           AfterEvaluator(site, o)
      [] driver = "download_latest_pagexml" -> AfterDownloadLatest(site, o)
      [] driver = "status_change" -> AfterStatusChange(site, o)
      [] driver = "changeStatus" -> AfterChangeStatus(site, o)
      [] driver = "replaceCharacters" -> AfterReplaceCharacters(site, o)

RequestSites == {"get_sid", "list_collections", "list_documents",
                 "get_document_content", "get_page_xml", "post_page_xml",
                 "download_pagexml", "update_page_status", "run_layout_analysis",
                 "run_text_recognition", "get_job_status"}

\* a driver that sends a failed login again
UpcomingWithLoginRetry ==
    IF lgLog = <<>> THEN BeforeFirstRequest(lgDriver)
    ELSE IF lgLog[Len(lgLog)] = Request("get_sid", "fail") THEN {"get_sid", "aborted"}
    ELSE After(lgDriver, lgLog[Len(lgLog)].site, lgLog[Len(lgLog)].outcome)

\* what the run does next: a request at one of these sites, or its end
Upcoming ==
    IF lgLog = <<>> THEN BeforeFirstRequest(lgDriver)
    ELSE After(lgDriver, lgLog[Len(lgLog)].site, lgLog[Len(lgLog)].outcome)

BatchRequest(site, o) ==
    /\ lgState = "running"
    /\ Len(lgLog) < MaxRequests
    /\ site \in Upcoming
    /\ lgLog' = Append(lgLog, Request(site, Replied(o)))
    /\ UNCHANGED <<lgDriver, lgState>>

BatchFinish ==
    /\ lgState = "running"
    /\ "finished" \in Upcoming
    /\ lgState' = "finished"
    /\ UNCHANGED <<lgDriver, lgLog>>

BatchAbort ==
    /\ lgState = "running"
    /\ "aborted" \in Upcoming
    /\ lgState' = "aborted"
    /\ UNCHANGED <<lgDriver, lgLog>>

InitLogin ==
    /\ RetryIdle /\ PviIdle /\ SelIdle /\ DrvIdle /\ EvIdle /\ CiIdle /\ DnIdle /\ StIdle /\ PlIdle /\ TxIdle /\ RcIdle
    /\ lgDriver \in BatchDrivers
    /\ lgLog = <<>>
    /\ lgState = "running"

otherThanLogin == <<retryVars, pviVars, selVars, drvVars, evVars, ciVars, dnVars, stVars, plVars, txVars, rcVars>>

NextLogin ==
    \/ \E site \in RequestSites, o \in RequestOutcomes :
           BatchRequest(site, o) /\ UNCHANGED otherThanLogin
    \/ BatchFinish /\ UNCHANGED otherThanLogin
    \/ BatchAbort /\ UNCHANGED otherThanLogin

SpecLogin == InitLogin /\ [][NextLogin]_vars

\* ---------------------------------------------------------------------------
\* Claims about the login of the batch drivers
\* ---------------------------------------------------------------------------

Logins == {i \in 1..Len(lgLog) : lgLog[i].site = "get_sid"}

\* the run is over
Ended == lgState \in {"finished", "aborted"}

\* C17: every batch driver sends exactly one login request, before any other
\* request; a login that fails is not sent again, no other request follows
\* it, and the run ends with the exception of get_sid.
C17_ExactlyOneLoginAndFirst ==
    /\ lgLog # <<>> => Logins = {1}
    /\ Ended => Logins = {1}
    /\ (lgLog # <<>> /\ lgLog[1].outcome = "fail") =>
           /\ Len(lgLog) = 1
           /\ lgState # "finished"
           /\ Upcoming = {"aborted"}

\* C17 amended: a run sends the login request at most once; a run that
\* sends any request sends the login request first, and a run that ends
\* normally has sent it; a run that has sent no login request has sent no
\* request and can only send the login request or end by an exception; a
\* login that fails is not sent again, no other request follows it, and the
\* run ends with the exception of get_sid.
C17_LoginOnceAndFirst ==
    /\ Logins \subseteq {1}
    /\ lgLog # <<>> => Logins = {1}
    /\ lgState = "finished" => Logins = {1}
    /\ Logins = {} =>
           /\ lgLog = <<>>
           /\ Upcoming = {"get_sid", "aborted"}
    /\ (lgLog # <<>> /\ lgLog[1].outcome = "fail") =>
           /\ Len(lgLog) = 1
           /\ lgState # "finished"
           /\ Upcoming = {"aborted"}

\* a login failed and ended the run
C17_Witness ==
    /\ lgState = "aborted"
    /\ lgLog = <<Request("get_sid", "fail")>>

\* ===========================================================================
\* Part 6: one call of get_colid(col_name, sid)
\* ===========================================================================

MaxCollections == 2

CollectionNames == {"HGB_1_A", "HGB_1_a", "HGB_1_AB"}

\* the colId of the i-th entry of the listing
ColId(i) == 100 + i

Collection(i, name) == [colId |-> ColId(i), colName |-> name]

\* the listings the platform can answer with
Listings ==
    UNION {{[i \in 1..n |-> Collection(i, names[i])] : names \in [1..n -> CollectionNames]}
           : n \in 0..MaxCollections}

ReturnColid(id) == [kind |-> "return", value |-> "colId", colId |-> id]

\* coll[coll['colName'] == col_name]: the positions of the rows selected
RowsOfName(listing, name) == {i \in 1..Len(listing) : listing[i].colName = name}

Lowest(S) == CHOOSE i \in S : \A j \in S : i <= j

\* a lookup that takes the first collection when none has the name
LookupColidOrFirst(listing, name) ==
    IF listing = <<>> THEN Raise("KeyError")
    ELSE IF RowsOfName(listing, name) = {} THEN ReturnColid(listing[1].colId)
    ELSE ReturnColid(listing[Lowest(RowsOfName(listing, name))].colId)

\* the try block of get_colid: an empty listing gives a frame without the
\* column 'colName', a listing without the name an empty selection
LookupColid(listing, name) ==
    IF listing = <<>> THEN Raise("KeyError")
    ELSE IF RowsOfName(listing, name) = {} THEN Raise("IndexError")
    ELSE ReturnColid(listing[Lowest(RowsOfName(listing, name))].colId)

\* list_collections(sid), called before the try block
ColidList(o) ==
    /\ ciPc = "list"
    /\ ciRequest' = o
    /\ IF o = "ok"
       THEN ciPc' = "lookup" /\ UNCHANGED ciResult
       ELSE ciPc' = "done" /\ ciResult' = Raise(RequestError(o))
    /\ UNCHANGED <<ciListing, ciName>>

ColidLookup ==
    /\ ciPc = "lookup"
    /\ ciResult' = LookupColid(ciListing, ciName)
    /\ ciPc' = "done"
    /\ UNCHANGED <<ciListing, ciName, ciRequest>>

InitColid ==
    /\ RetryIdle /\ PviIdle /\ SelIdle /\ DrvIdle /\ EvIdle /\ LgIdle /\ DnIdle /\ StIdle /\ PlIdle /\ TxIdle /\ RcIdle
    /\ ciListing \in Listings
    /\ ciName \in CollectionNames
    /\ ciRequest = "none"
    /\ ciPc = "list"
    /\ ciResult = Pending

otherThanColid == <<retryVars, pviVars, selVars, drvVars, evVars, lgVars, dnVars, stVars, plVars, txVars, rcVars>>

NextColid ==
    \/ \E o \in RequestOutcomes : ColidList(o) /\ UNCHANGED otherThanColid
    \/ ColidLookup /\ UNCHANGED otherThanColid

SpecColid == InitColid /\ [][NextColid]_vars

\* ---------------------------------------------------------------------------
\* Claims about get_colid
\* ---------------------------------------------------------------------------

\* C18: get_colid returns the id of a collection of exactly the given name
\* when the listing has one; when it has none the call raises an exception
\* other than the ones a failed listing request raises (RuntimeError after
\* a non-success status, ConnectionError after a lost connection); the id
\* of a collection of another name is never returned.
C18_ExactNameOrNotFound ==
    ciPc = "done" =>
        /\ ciRequest = "fail" => ciResult = Raise("RuntimeError")
        /\ ciRequest = "conn" => ciResult = Raise("ConnectionError")
        /\ (ciRequest = "ok" /\ RowsOfName(ciListing, ciName) # {}) =>
               /\ ciResult.kind = "return"
               /\ \E i \in RowsOfName(ciListing, ciName) :
                      ciResult.colId = ciListing[i].colId
        /\ (ciRequest = "ok" /\ RowsOfName(ciListing, ciName) = {}) =>
               /\ ciResult.kind = "raise"
               /\ ciResult \notin {Raise("RuntimeError"), Raise("ConnectionError")}

C18_Witness ==
    /\ ciPc = "done" /\ ciRequest = "ok"
    /\ Len(ciListing) = 2
    /\ RowsOfName(ciListing, ciName) = {}
    /\ ciResult = Raise("IndexError")

\* ===========================================================================
\* Part 7: one run of download_latest_pagexml.main over an account with one
\* collection that holds one document
\* ===========================================================================

MaxDlPages == 2

\* the time zone of the process, which datetime.fromtimestamp converts to
TimeZones == {"UTC", "Europe/Zurich"}

\* values of transcript['timestamp']: half hours after 2023-10-29 00:00 UTC,
\* i.e. 1698537600000 + 1800000 * t; Zurich leaves summer time at 01:00 UTC
Timestamps == {1, 2}

\* datetime.fromtimestamp(timestamp/1000): the naive local time, in half
\* hours after the local midnight of 2023-10-29
FromTimestamp(zone, t) ==
    IF zone = "UTC" THEN t
    ELSE IF t < 2 THEN t + 4 ELSE t + 2

\* datetime.min
DatetimeMin == -1

DlStatuses == {"GT", "IN_PROGRESS"}

DlTranscript(t, status) == [timestamp |-> t, status |-> status]

DlTranscriptLists ==
    UNION {[1..n -> {DlTranscript(t, s) : t \in Timestamps, s \in DlStatuses}]
           : n \in 1..2}

DlDocuments == UNION {[1..n -> DlTranscriptLists] : n \in 0..MaxDlPages}

COLNAME_PREFIX == "HGB_1_"
COLNAME_TRAINING == {"HGB_Training", "HGB_Experimentell"}

\* collection name and document title of the account
DlAccounts == {<<"HGB_Training", "TRAINING_VALIDATION_SET_1">>,
               <<"HGB_Training", "HGB_1_001">>,
               <<"HGB_Experimentell", "HGB_1_001">>,
               <<"HGB_1_A", "HGB_1_001">>,
               <<"Archive", "HGB_1_001">>}

\* colName.startswith(COLNAME_PREFIX), for the names of DlAccounts
StartsWithPrefix(name) == name = "HGB_1_A"

CollectionOfInterest(name) == name \in COLNAME_TRAINING \/ StartsWithPrefix(name)

\* title.startswith('TRAINING_VALIDATION_SET'), for the titles of DlAccounts
DocumentSkipped(name, title) ==
    name = "HGB_Training" /\ title = "TRAINING_VALIDATION_SET_1"

NoIndex == -1

Later(a, b) == IF a >= b THEN a ELSE b

\* the loop over the transcripts of a page: s holds timestamp_latest,
\* timestamp_latest_gt, index_latest and index_latest_gt; i is the position
\* (from 1) of the transcript looked at, its index is i - 1
RECURSIVE ScanTranscripts(_, _, _, _, _)
ScanTranscripts(zone, name, ts, i, s) ==
    IF i > Len(ts) THEN s
    ELSE LET timestamp == FromTimestamp(zone, ts[i].timestamp)
             latest == Later(s.timestamp_latest, timestamp)
             isGt == name = "HGB_Training" /\ ts[i].status = "GT"
             latestGt == IF isGt THEN Later(s.timestamp_latest_gt, timestamp)
                         ELSE s.timestamp_latest_gt
         IN ScanTranscripts(zone, name, ts, i + 1,
                [timestamp_latest |-> latest,
                 timestamp_latest_gt |-> latestGt,
                 index_latest |-> IF latest = timestamp THEN i - 1
                                  ELSE s.index_latest,
                 index_latest_gt |-> IF isGt /\ latestGt = timestamp THEN i - 1
                                     ELSE s.index_latest_gt])

\* index_latest when the page is downloaded
IndexLatest(zone, name, ts) ==
    LET s == ScanTranscripts(zone, name, ts, 1,
                 [timestamp_latest |-> DatetimeMin,
                  timestamp_latest_gt |-> DatetimeMin,
                  index_latest |-> NoIndex, index_latest_gt |-> NoIndex])
    IN IF s.index_latest_gt # NoIndex /\ s.index_latest # s.index_latest_gt
       THEN s.index_latest_gt
       ELSE s.index_latest

\* what a call of download_pagexml can end in: the file written, the file
\* left incomplete but the call returning, or an exception
DownloadCallOutcomes == {"ok", "incomplete", "raise"}

Download(nr, index, o) == [pageNr |-> nr, index |-> index, outcome |-> o]

DlAbort == dnPc' = "aborted" /\ UNCHANGED <<dnNext, dnDownloads>>

DlLogin(o) ==
    /\ dnPc = "login"
    /\ IF o = "ok" THEN dnPc' = "list_collections" /\ UNCHANGED <<dnNext, dnDownloads>>
       ELSE DlAbort
    /\ UNCHANGED <<dnZone, dnAccount, dnPages>>

DlListCollections(o) ==
    /\ dnPc = "list_collections"
    /\ IF o # "ok" THEN DlAbort
       ELSE /\ dnPc' = IF CollectionOfInterest(dnAccount[1]) THEN "list_documents"
                       ELSE "finished"
            /\ UNCHANGED <<dnNext, dnDownloads>>
    /\ UNCHANGED <<dnZone, dnAccount, dnPages>>

DlListDocuments(o) ==
    /\ dnPc = "list_documents"
    /\ IF o # "ok" THEN DlAbort
       ELSE /\ dnPc' = IF DocumentSkipped(dnAccount[1], dnAccount[2]) THEN "finished"
                       ELSE "fulldoc"
            /\ UNCHANGED <<dnNext, dnDownloads>>
    /\ UNCHANGED <<dnZone, dnAccount, dnPages>>

DlGetDocument(o) ==
    /\ dnPc = "fulldoc"
    /\ IF o # "ok" THEN DlAbort
       ELSE /\ dnPc' = IF dnPages = <<>> THEN "finished" ELSE "page"
            /\ dnNext' = 1
            /\ UNCHANGED dnDownloads
    /\ UNCHANGED <<dnZone, dnAccount, dnPages>>

\* one pass of the loop over the pages
DlPage(o) ==
    /\ dnPc = "page"
    /\ dnDownloads' = Append(dnDownloads,
           Download(dnNext, IndexLatest(dnZone, dnAccount[1], dnPages[dnNext]), o))
    /\ IF o = "raise" THEN dnPc' = "aborted" /\ UNCHANGED dnNext
       ELSE /\ dnNext' = dnNext + 1
            /\ dnPc' = IF dnNext = Len(dnPages) THEN "finished" ELSE "page"
    /\ UNCHANGED <<dnZone, dnAccount, dnPages>>

InitDownload ==
    /\ RetryIdle /\ PviIdle /\ SelIdle /\ DrvIdle /\ EvIdle /\ LgIdle /\ CiIdle /\ StIdle /\ PlIdle /\ TxIdle /\ RcIdle
    /\ dnZone \in TimeZones
    /\ dnAccount \in DlAccounts
    /\ dnPages \in DlDocuments
    /\ dnPc = "login"
    /\ dnNext = 0
    /\ dnDownloads = <<>>

otherThanDownload == <<retryVars, pviVars, selVars, drvVars, evVars, lgVars, ciVars, stVars, plVars, txVars, rcVars>>

NextDownload ==
    \/ \E o \in RequestOutcomes : DlLogin(o) /\ UNCHANGED otherThanDownload
    \/ \E o \in RequestOutcomes : DlListCollections(o) /\ UNCHANGED otherThanDownload
    \/ \E o \in RequestOutcomes : DlListDocuments(o) /\ UNCHANGED otherThanDownload
    \/ \E o \in RequestOutcomes : DlGetDocument(o) /\ UNCHANGED otherThanDownload
    \/ \E o \in DownloadCallOutcomes : DlPage(o) /\ UNCHANGED otherThanDownload

SpecDownload == InitDownload /\ [][NextDownload]_vars

\* ---------------------------------------------------------------------------
\* Claims about download_latest_pagexml
\* ---------------------------------------------------------------------------

DlIndexes(ts) == 0..(Len(ts) - 1)

DlGtIndexes(ts) == {i \in DlIndexes(ts) : ts[i + 1].status = "GT"}

\* the indexes the selection is made among
DlCandidates(name, ts) ==
    IF name = "HGB_Training" /\ DlGtIndexes(ts) # {} THEN DlGtIndexes(ts)
    ELSE DlIndexes(ts)

\* C19: for every page handled, one transcript is downloaded: the one with
\* the largest timestamp of the page, or, in HGB_Training when the page has
\* transcripts of status GT, the GT transcript with the largest timestamp
\* among those.
C19_LatestTranscriptDownloaded ==
    /\ Len(dnDownloads) = (IF dnPc \in {"page", "finished", "aborted"} /\ dnNext > 0
                           THEN (IF dnPc = "aborted" /\ dnDownloads # <<>>
                                 THEN dnNext ELSE dnNext - 1)
                           ELSE 0)
    /\ \A k \in 1..Len(dnDownloads) :
           LET ts == dnPages[k]
               d == dnDownloads[k]
           IN /\ d.pageNr = k
              /\ d.index \in DlCandidates(dnAccount[1], ts)
              /\ \A j \in DlCandidates(dnAccount[1], ts) :
                     ts[j + 1].timestamp <= ts[d.index + 1].timestamp

\* ===========================================================================
\* Part 8: one run of a status-change driver (status_change.main or the main
\* block of changeStatus) on an input file whose rows name pages of one
\* document of one collection
\* ===========================================================================

MaxRows == 2

StatusDrivers == {"status_change", "changeStatus"}

\* the functions the driver's import statement binds
ImportedNames(driver) ==
    IF driver = "status_change"
    THEN {"get_sid", "get_colid", "list_documents", "get_document_content",
          "update_page_status"}
    ELSE {"get_sid", "list_collections", "list_documents", "get_document_content",
          "get_page_xml_url", "get_page_xml", "post_page_xml"}

\* the column pagenr (page_nr) of the input file
PageNumbers == 0..2

StInputs == UNION {[1..n -> PageNumbers] : n \in 1..MaxRows}

\* number of pages of the document
StDocuments == 1..2

\* tsId of the first transcript of the page at a position of the page list
TsId(position) == 1000 + position

\* an empty cell of the column (NaN)
NoTsid == 0

\* doc_content['pageList']['pages'][pagenr - 1]: the position (from 1) of the
\* page taken, 0 when the index is out of range
PagePosition(pagenr, nPages) ==
    LET index == pagenr - 1
    IN IF index >= 0 /\ index < nPages THEN index + 1
       ELSE IF index < 0 /\ -index <= nPages THEN nPages + index + 1
       ELSE 0

\* the column tsid after the loop over the affected pages
TsidColumn(rows, nPages) ==
    [j \in 1..Len(rows) |->
        IF PagePosition(rows[j], nPages) = 0 THEN NoTsid
        ELSE TsId(PagePosition(rows[j], nPages))]

WarnPageNotFound(j) == [warning |-> "Page not found.", row |-> j]

WarnNotUpdated(j, exc) == [warning |-> "Status not updated.", row |-> j, exc |-> exc]

RECURSIVE PageWarnings(_, _, _)
PageWarnings(rows, nPages, j) ==
    IF j > Len(rows) THEN <<>>
    ELSE (IF PagePosition(rows[j], nPages) = 0 THEN <<WarnPageNotFound(j)>> ELSE <<>>)
         \o PageWarnings(rows, nPages, j + 1)

StRequest(site, row, o) == [site |-> site, row |-> row, outcome |-> Replied(o)]

\* an exception leaves main
StRaise(exc) ==
    /\ stPc' = "aborted" /\ stExc' = exc
    /\ UNCHANGED <<stNext, stTsid, stWarnings>>

\* the call of a function by its name: NameError when the name is not bound
StCall(driver, name, pcNext) ==
    IF name \in ImportedNames(driver)
    THEN /\ stPc' = pcNext
         /\ UNCHANGED <<stNext, stTsid, stWarnings, stExc>>
    ELSE StRaise("NameError")

StLogin(o) ==
    /\ stPc = "login"
    /\ stLog' = Append(stLog, StRequest("get_sid", 0, o))
    /\ IF o # "ok" THEN StRaise(RequestError(o))
       ELSE StCall(stDriver, "get_colid", "get_colid")
    /\ UNCHANGED <<stDriver, stRows, stPages>>

\* the columns colname and title of the rows of the input file
StColName == "HGB_1_A"
StTitle == "doc"

\* the listings of documents the platform can answer with, by their titles
StDocListings == {<<>>, <<"doc">>, <<"other">>, <<"other", "doc">>}

\* docs[docs['title'] == docname]['docId'].iloc[0]: an empty listing gives a
\* frame without the column 'title', a listing without the title an empty
\* selection
LookupDocid(listing, title) ==
    IF listing = <<>> THEN Raise("KeyError")
    ELSE IF \A i \in 1..Len(listing) : listing[i] # title THEN Raise("IndexError")
    ELSE [kind |-> "return", value |-> "docId"]

\* get_colid(col_name=row['colname'], sid=sid): the request of
\* list_collections and the lookup of the name in the listing it returned
StGetColid(o, listing) ==
    /\ stPc = "get_colid"
    /\ stLog' = Append(stLog, StRequest("list_collections", 0, o))
    /\ IF o # "ok" THEN StRaise(RequestError(o))
       ELSE IF LookupColid(listing, StColName).kind = "raise"
       THEN StRaise(LookupColid(listing, StColName).exc)
       ELSE StCall(stDriver, "list_documents", "list_documents")
    /\ UNCHANGED <<stDriver, stRows, stPages>>

\* list_documents and the lookup of the document id by the title
StListDocuments(o, listing) ==
    /\ stPc = "list_documents"
    /\ stLog' = Append(stLog, StRequest("list_documents", 0, o))
    /\ IF o # "ok" THEN StRaise(RequestError(o))
       ELSE IF LookupDocid(listing, StTitle).kind = "raise"
       THEN StRaise(LookupDocid(listing, StTitle).exc)
       ELSE StCall(stDriver, "get_document_content", "fulldoc")
    /\ UNCHANGED <<stDriver, stRows, stPages>>

\* get_document_content, the loop over the affected pages, and what follows
\* up to the loop over the rows
StGetDocument(o) ==
    /\ stPc = "fulldoc"
    /\ stLog' = Append(stLog, StRequest("get_document_content", 0, o))
    /\ IF o # "ok" THEN StRaise(RequestError(o))
       ELSE /\ stTsid' = TsidColumn(stRows, stPages)
            /\ stWarnings' = PageWarnings(stRows, stPages, 1)
            /\ stNext' = 1
            /\ stPc' = "update"
            /\ UNCHANGED stExc
    /\ UNCHANGED <<stDriver, stRows, stPages>>

\* one pass of the loop over the rows: int(row['tsid']) raises for a row
\* without tsid (KeyError when no row has one), update_page_status raises on
\* a non-success status or a lost connection, and the except clause logs
\* the exception
StUpdate(o) ==
    /\ stPc = "update"
    /\ IF stTsid[stNext] = NoTsid
       THEN /\ stWarnings' = Append(stWarnings, WarnNotUpdated(stNext,
                  IF \A j \in 1..Len(stRows) : stTsid[j] = NoTsid
                  THEN "KeyError" ELSE "ValueError"))
            /\ UNCHANGED stLog
       ELSE IF "update_page_status" \notin ImportedNames(stDriver)
       THEN /\ stWarnings' = Append(stWarnings, WarnNotUpdated(stNext, "NameError"))
            /\ UNCHANGED stLog
       ELSE /\ stLog' = Append(stLog, StRequest("update_page_status", stNext, o))
            /\ stWarnings' = IF o = "ok" THEN stWarnings
                             ELSE Append(stWarnings,
                                         WarnNotUpdated(stNext, RequestError(o)))
    /\ stNext' = stNext + 1
    /\ stPc' = IF stNext = Len(stRows) THEN "finished" ELSE "update"
    /\ UNCHANGED <<stDriver, stRows, stPages, stTsid, stExc>>

InitStatus ==
    /\ RetryIdle /\ PviIdle /\ SelIdle /\ DrvIdle /\ EvIdle /\ LgIdle /\ CiIdle /\ PlIdle /\ TxIdle /\ RcIdle
    /\ DnIdle
    /\ stDriver \in StatusDrivers
    /\ stRows \in StInputs
    /\ stPages \in StDocuments
    /\ stPc = "login"
    /\ stNext = 0
    /\ stTsid = <<>>
    /\ stLog = <<>>
    /\ stWarnings = <<>>
    /\ stExc = "none"

otherThanStatus == <<retryVars, pviVars, selVars, drvVars, evVars, lgVars, ciVars,
                     dnVars, plVars, txVars, rcVars>>

NextStatus ==
    \/ \E o \in RequestOutcomes : StLogin(o) /\ UNCHANGED otherThanStatus
    \/ \E o \in RequestOutcomes, listing \in Listings :
           StGetColid(o, listing) /\ UNCHANGED otherThanStatus
    \/ \E o \in RequestOutcomes, listing \in StDocListings :
           StListDocuments(o, listing) /\ UNCHANGED otherThanStatus
    \/ \E o \in RequestOutcomes : StGetDocument(o) /\ UNCHANGED otherThanStatus
    \/ \E o \in RequestOutcomes : StUpdate(o) /\ UNCHANGED otherThanStatus

SpecStatus == InitStatus /\ [][NextStatus]_vars

\* ---------------------------------------------------------------------------
\* Claims about the status-change drivers
\* ---------------------------------------------------------------------------

\* the rows of the input whose page is not at the expected index
StRowsNotFound == {j \in 1..Len(stRows) : PagePosition(stRows[j], stPages) = 0}

StUpdatesOf(j) ==
    {i \in 1..Len(stLog) : stLog[i].site = "update_page_status" /\ stLog[i].row = j}

StWarningsOf(j) ==
    {i \in 1..Len(stWarnings) :
        stWarnings[i].warning = "Status not updated." /\ stWarnings[i].row = j}

\* C20: in both status-change drivers a page that is not found and a status
\* update that is answered with a non-success status are not fatal: the run
\* ends only by an exception when a request other than a status update has
\* failed or when the collection or the document of the input is not in the
\* listing; every row passed by the loop has either its status update sent or
\* a warning logged, a failed update has its warning, and a run whose other
\* requests succeed ends finished with the updates of all rows that have a
\* page sent.
C20_PerPageFailureNonFatal ==
    /\ stPc = "aborted" =>
           /\ stLog # <<>>
           /\ stLog[Len(stLog)].site # "update_page_status"
           /\ \/ stLog[Len(stLog)].outcome = "fail"
              \/ /\ stLog[Len(stLog)].site \in {"list_collections", "list_documents"}
                 /\ stExc \in {"KeyError", "IndexError"}
    /\ stPc \in {"update", "finished"} =>
           \A j \in 1..Len(stRows) :
               j < stNext =>
                   /\ (j \in StRowsNotFound) =>
                          StUpdatesOf(j) = {} /\ StWarningsOf(j) # {}
                   /\ (j \notin StRowsNotFound) =>
                          /\ Cardinality(StUpdatesOf(j)) = 1
                          /\ \A i \in StUpdatesOf(j) :
                                 stLog[i].outcome = "fail" <=> StWarningsOf(j) # {}
    /\ stPc = "finished" => stNext = Len(stRows) + 1


(***************************************************************************)
(* Claims on the order and the targets of the jobs of                      *)
(* collection_transcription.                                               *)
(***************************************************************************)
UnfinishedJobs == {id \in 1..Len(jobs) : jobs[id] # "FINISHED"}

\* C21: at most one job submitted by the run is unfinished at any time: a
\* job is submitted only after every job submitted before it was observed
\* FINISHED, and the jobs of one document are submitted for enabled steps
\* only, in the order P2PaLA, line finder, text recognition.
C21_OneJobAtATimeInStepOrder ==
    /\ Cardinality(UnfinishedJobs) <= 1
    /\ \A j \in JobRequests :
          /\ flags[reqLog[j].step]
          /\ \A i \in JobRequests :
                i < j =>
                    /\ reqLog[i].ok /\ reqLog[i].returned
                    /\ reqLog[i].observed = "FINISHED"
                    /\ jobs[reqLog[i].jobId] = "FINISHED"
                    /\ reqLog[i].docId = reqLog[j].docId =>
                           StepIndex(reqLog[i].step) < StepIndex(reqLog[j].step)

\* the three steps of one document were submitted, the third job is still
\* running, and a document of a later collection follows
C21_Witness ==
    /\ \E i, j, k \in JobRequests :
          /\ i < j /\ j < k
          /\ reqLog[i].docId = reqLog[k].docId /\ reqLog[j].docId = reqLog[k].docId
          /\ reqLog[i].step = "p2pala" /\ reqLog[j].step = "linefinder"
          /\ reqLog[k].step = "htr" /\ reqLog[k].ok
    /\ Cardinality(UnfinishedJobs) = 1
    /\ Len(colls) > 1


DocumentRequests ==
    {i \in 1..Len(reqLog) : reqLog[i].req \in {"fulldoc", "LA", "HTR"}}

\* C26: collection_transcription submits no job for a collection in
\* COLL_DROP and none for a document that the document filter does not
\* list, and it requests the content of no such document.
C26_DroppedCollectionsAndDocumentsUntouched ==
    \A i \in DocumentRequests :
        /\ reqLog[i].colId \notin COLL_DROP
        /\ reqLog[i].docId \in DocFilter

\* the run went past the dropped collection and past the unlisted document
\* of the first collection and submitted jobs in the collections around them
C26_Witness ==
    /\ pc = "finished"
    /\ \E i, j \in JobRequests :
          /\ reqLog[i].colId = 1 /\ reqLog[j].colId = 3
          /\ reqLog[i].returned /\ reqLog[j].returned
    /\ \E c \in COLL_DROP : \E k \in 1..Len(Collections) :
          Collections[k] = c /\ \E d \in DocFilter : \E n \in 1..Len(DocumentsOf(c)) : DocumentsOf(c)[n] = d
    /\ \E n \in 1..Len(DocumentsOf(1)) : DocumentsOf(1)[n] \notin DocFilter


\* the pages of its document that a job request names: page ids in the
\* pageList of a layout analysis, page numbers in the pages parameter of a
\* text recognition
PagesDenoted(r) ==
    IF r.req = "LA" THEN {r.pageIds[k] : k \in 1..Len(r.pageIds)}
    ELSE {PageId(r.docId, r.pages[k]) : k \in 1..Len(r.pages)}

\* page i of the current document is excluded: by its number, by the status
\* of its latest transcript, or by the cutoff after a page excluded by status
PageExcluded(i) ==
    \/ curPages[i].pageNr \in PAGE_DROP_NR
    \/ curPages[i].transcripts[1].status \in PAGE_DROP_STATUS
    \/ /\ PAGE_DROP_STATUS_FOLLOWING
       /\ \E j \in 1..(i - 1) :
             /\ curPages[j].pageNr \notin PAGE_DROP_NR
             /\ curPages[j].transcripts[1].status \in PAGE_DROP_STATUS

SelectedPageIds ==
    {curPages[i].pageId : i \in {k \in 1..Len(curPages) : ~PageExcluded(k)}}

\* C28: all jobs of one document target the same pages: the page ids of the
\* P2PaLA and line-finder requests and the page numbers of the
\* text-recognition request denote exactly the selected pages of the
\* document, and no excluded page is in any of them.
C28_JobsOfADocumentTargetSelectedPages ==
    /\ \A i, j \in JobRequests :
          reqLog[i].docId = reqLog[j].docId =>
              PagesDenoted(reqLog[i]) = PagesDenoted(reqLog[j])
    /\ \A i \in JobRequests :
          i > LastFulldoc =>
              /\ PagesDenoted(reqLog[i]) = SelectedPageIds
              /\ \A k \in 1..Len(curPages) :
                    PageExcluded(k) => curPages[k].pageId \notin PagesDenoted(reqLog[i])
              /\ reqLog[i].req = "LA" => Len(reqLog[i].pageIds) = Len(selected)
              /\ reqLog[i].req = "HTR" => Len(reqLog[i].pages) = Len(selected)

\* the three jobs of a document with a selected and an excluded page were
\* submitted
C28_Witness ==
    /\ \E i, j, k \in JobRequests :
          /\ LastFulldoc < i /\ i < j /\ j < k
          /\ reqLog[i].step = "p2pala" /\ reqLog[j].step = "linefinder"
          /\ reqLog[k].step = "htr"
    /\ SelectedPageIds # {}
    /\ \E n \in 1..Len(curPages) : PageExcluded(n)


(***************************************************************************)
(* Part 9.  The polling loop of run_layout_analysis and                    *)
(* run_text_recognition, request by request, and get_job_status called     *)
(* on its own.                                                             *)
(*                                                                         *)
(* The loop calls get_job_status(jobid, sid) with the default n_retry.     *)
(* Of the calls made by one loop the state keeps the responses of the      *)
(* running call and of the call before it.                                 *)
(***************************************************************************)
PollingFunctions == {"run_layout_analysis", "run_text_recognition"}

\* what get_job_status sees of a response: the status code is OK or not, or
\* the connection was lost
Response(o, state) ==
    [outcome |-> CASE o = "ok" -> "ok" [] o = "conn" -> "conn" [] OTHER -> "fail",
     state |-> IF o = "ok" THEN state ELSE "none"]

\* n_retry of the next call "get_job_status(jobid, sid)" of the loop, where
\* n is what the call before it had left
PollBudgetCarriedOver(n) == n

PollBudget(n) == PollRetry

\* the POST that creates the job
PlSubmit(o) ==
    /\ plFn \in PollingFunctions /\ plPc = "submit"
    /\ IF o = "ok"
       THEN /\ plJob' = "CREATED" /\ plPc' = "poll"
            /\ plN0' = PollBudget(plN) /\ plN' = PollBudget(plN)
       ELSE /\ plPc' = "raised"
            /\ UNCHANGED <<plJob, plN0, plN>>
    /\ UNCHANGED <<plFn, plLog, plPrev, plSeen>>

\* one request of the running get_job_status call
PlStatusRequest(o) ==
    /\ plPc = "poll"
    /\ LET r == GetJobStatus(plN, o, plJob)
       IN  /\ plLog' = Append(plLog, Response(o, plJob))
           /\ plN' = r.n
           /\ CASE r.result = Pending -> UNCHANGED <<plPc, plSeen>>
                [] r.result.kind = "raise" -> plPc' = "raised" /\ UNCHANGED plSeen
                [] r.result.kind = "return" ->
                       /\ plSeen' = r.result.state
                       /\ plPc' = IF plFn \in PollingFunctions
                                     /\ ~LoopExit(r.result.state)
                                  THEN "sleep" ELSE "returned"
    /\ UNCHANGED <<plFn, plJob, plN0, plPrev>>

\* time.sleep(10) and the call of get_job_status of the next turn
PlSleep ==
    /\ plPc = "sleep"
    /\ plPc' = "poll"
    /\ plN0' = PollBudget(plN) /\ plN' = PollBudget(plN)
    /\ plPrev' = plLog /\ plLog' = <<>>
    /\ UNCHANGED <<plFn, plJob, plSeen>>

\* the platform works on the job
PlJobProgress ==
    /\ plPc \in {"poll", "sleep"}
    /\ \E st \in NextJobStates(plJob) : plJob' = st
    /\ UNCHANGED <<plFn, plPc, plN0, plN, plLog, plPrev, plSeen>>

InitPoll ==
    /\ RetryIdle /\ PviIdle /\ SelIdle /\ DrvIdle /\ EvIdle /\ LgIdle /\ CiIdle /\ TxIdle /\ RcIdle
    /\ DnIdle /\ StIdle
    /\ plFn \in PollingFunctions \cup {"get_job_status"}
    /\ IF plFn = "get_job_status"
       THEN /\ plPc = "poll" /\ plJob \in JobStates
            /\ plN0 \in 0..MaxRetry /\ plN = plN0
       ELSE plPc = "submit" /\ plJob = "none" /\ plN0 = 0 /\ plN = 0
    /\ plLog = <<>> /\ plPrev = <<>> /\ plSeen = "none"

otherThanPoll == <<retryVars, pviVars, selVars, drvVars, evVars, lgVars, ciVars,
                   dnVars, stVars, txVars, rcVars>>

\* the steps of the script
PollStep ==
    \/ \E o \in {"ok", "eOther"} : PlSubmit(o)
    \/ \E o \in HttpOutcomes : PlStatusRequest(o)
    \/ PlSleep

NextPoll ==
    \/ \E o \in {"ok", "eOther"} : PlSubmit(o) /\ UNCHANGED otherThanPoll
    \/ \E o \in HttpOutcomes : PlStatusRequest(o) /\ UNCHANGED otherThanPoll
    \/ PlSleep /\ UNCHANGED otherThanPoll
    \/ PlJobProgress /\ UNCHANGED otherThanPoll

SpecPoll == InitPoll /\ [][NextPoll]_vars

\* the script is single-threaded: a request that was sent is answered or
\* raises, and sleep returns, so the script takes its next step; nothing is
\* assumed of the platform's work on the job
FairSpecPoll == SpecPoll /\ WF_vars(PollStep /\ UNCHANGED otherThanPoll)


\* the requests of a response sequence that were not answered with success
Failures(lg) == {k \in 1..Len(lg) : lg[k].outcome # "ok"}

PlCallReturned ==
    plPc \in {"sleep", "returned"} /\ plLog # <<>>

\* C23: one call get_job_status(jobid, sid, n_retry) issues at most
\* n_retry + 1 requests, returns the state of the first successful response
\* and raises when all n_retry + 1 responses are non-success; every turn of
\* the polling loops starts the call with the full default budget, whatever
\* the calls before it used up.
C23_RetryBudgetPerPoll ==
    /\ Len(plLog) <= plN0 + 1
    /\ PlCallReturned =>
          /\ Failures(plLog) = 1..(Len(plLog) - 1)
          /\ plSeen = plLog[Len(plLog)].state
    /\ (Len(plLog) = plN0 + 1 /\ Failures(plLog) = 1..(plN0 + 1))
          => plPc = "raised"
    /\ (plFn \in PollingFunctions /\ plPc \in {"poll", "sleep", "returned"}) =>
          /\ plN0 = PollRetry
          /\ plN = PollRetry - Cardinality(Failures(plLog))

\* a polling loop whose earlier call had used up all its retries ends in a
\* later call only with the last request of that call's full budget
C23_Witness ==
    /\ plFn = "run_text_recognition" /\ plPc = "raised"
    /\ Cardinality(Failures(plPrev)) = PollRetry
    /\ Len(plLog) = PollRetry + 1
    /\ Failures(plLog) = 1..(PollRetry + 1)


\* C22: when the submission succeeds, the job reaches FINISHED and stays
\* there, and every status query succeeds within its retry budget (so that
\* neither the submission nor a get_job_status call raises), then
\* run_layout_analysis and run_text_recognition return.
C22_PollingReturns ==
    (/\ plFn \in PollingFunctions
     /\ <>[](plJob = "FINISHED")
     /\ [](plPc # "raised"))
        => <>(plPc = "returned")

\* a polling function has returned after a turn that saw the job unfinished
\* and had to repeat a request
C22_Witness ==
    /\ plFn = "run_layout_analysis" /\ plPc = "returned"
    /\ plJob = "FINISHED" /\ plSeen = "FINISHED"
    /\ plPrev # <<>> /\ Failures(plPrev) # {}
    /\ plPrev[Len(plPrev)].state = "RUNNING"


(***************************************************************************)
(* Further claims about the metric evaluator.                              *)
(***************************************************************************)
\* a status filter is configured, the reference keyword resolves on page nr
\* and the status of the transcript it resolves to is not in FILTER_STATUS
EvFilteredOut(nr) ==
    /\ evConfig.filter # {}
    /\ EvResolved(EvReference(nr))
    /\ ~EvPassesFilter(nr)

EvFetches(nr) ==
    {i \in 1..Len(evLog) : evLog[i].req = "pagexml" /\ evLog[i].pageNr = nr}

\* C24: with a status filter configured, reading a page whose resolved
\* reference transcript has a status outside FILTER_STATUS leaves the table
\* as it was: no row is added, the prediction keyword is not resolved (the
\* run goes on to the next page whatever the keyword would resolve to) and
\* no page xml is requested.
C24_FilteredPageLeavesTableUnchanged ==
    [][(evPc = "read" /\ evNext <= Len(evDoc) /\ EvFilteredOut(evNext))
        => /\ evRows' = evRows
           /\ evLog' = evLog
           /\ evPc' # "aborted" /\ evExc' = evExc
           /\ evNext' = evNext + 1]_vars

\* the loop has passed a page that the filter excludes and whose prediction
\* keyword resolves to no transcript; the run ended on the page after it,
\* which passes the filter and has its prediction keyword looked up
C24_Witness ==
    \E nr \in 1..(Len(evDoc) - 1) :
        /\ EvProcessed(nr) /\ EvFilteredOut(nr)
        /\ ~EvResolved(EvPrediction(nr))
        /\ EvRows(nr) = {} /\ EvFetches(nr) = {}
        /\ EvAbortedOn(nr + 1) /\ ~EvFilteredOut(nr + 1)


\* the two lists have the same length, and the lines at each position come
\* from the same page, the same region and the same position in the region
Aligned(m) ==
    /\ Len(m.references) = Len(m.predictions)
    /\ \A k \in 1..Len(m.references) :
          /\ m.references[k][1] = m.predictions[k][1]
          /\ m.references[k][3] = m.predictions[k][3]
          /\ m.references[k][4] = m.predictions[k][4]

\* the lists of every error rate that the table as it stands gives rise to
MetricInputs(rows) ==
    LET a == Aggregates(rows)
    IN  {a.global} \cup {a.types[ty] : ty \in DOMAIN a.types}
            \cup {a.pages[p] : p \in DOMAIN a.pages}
            \cup {a.regions[i] : i \in DOMAIN a.regions}

\* C27: whenever an error rate is computed (global, per type, per page, per
\* region) the list of reference lines and the list of prediction lines
\* handed to calculate_metric have the same length, and the lines at the
\* same position come from the same region and the same line position.
C27_MetricInputsAligned ==
    /\ \A m \in MetricInputs(evRows) : Aligned(m)
    /\ evPc = "finished" => evAgg = Aggregates(evRows)

\* the error rates were computed from the lines of two regions, with a row
\* of unequal length left out
C27_Witness ==
    /\ evPc = "finished"
    /\ \E i, j \in 1..Len(evAgg.global.references) :
          evAgg.global.references[i][3] # evAgg.global.references[j][3]
    /\ \E i \in 1..Len(evRows) :
          Len(evRows[i].text_reference) # Len(evRows[i].text_prediction)
              /\ evRows[i].text_prediction # <<>>
    /\ DOMAIN evAgg.types # {} /\ DOMAIN evAgg.pages # {}


\* C29: no status update is sent for an input row whose page was not found
\* (no transcript id was stored for it), and every update that is sent
\* carries the id of the first transcript of the page that has the row's
\* page number.
C29_UpdateCarriesTranscriptOfItsPage ==
    \A i \in 1..Len(stLog) :
        stLog[i].site = "update_page_status" =>
            LET j == stLog[i].row
            IN  /\ stTsid[j] # NoTsid
                /\ stRows[j] \in 1..stPages
                /\ stTsid[j] = TsId(stRows[j])


(***************************************************************************)
(* Part 10.  get_textregions (htr_model_validation and validateHtrModel).  *)
(*                                                                         *)
(* A TextRegion of the page xml has an id, optionally the attribute        *)
(* custom, which optionally holds "structure {type:LABEL;}", a number of   *)
(* TextLine elements with one Unicode element each and, optionally, as     *)
(* its last child the TextEquiv with the text of the whole region.  A      *)
(* Unicode element is written <<region id, k>>: k is the number of its     *)
(* line, 0 for the element of the whole region.                            *)
(***************************************************************************)
\* most TextRegion elements of a page
MaxRegions == 2

LowerCase ==
    {"a", "b", "c", "d", "e", "f", "g", "h", "i", "j", "k", "l", "m", "n", "o",
     "p", "q", "r", "s", "t", "u", "v", "w", "x", "y", "z"}
Header == <<"h", "e", "a", "d", "e", "r">>
PageNumber == <<"p", "a", "g", "e", "-", "n", "u", "m", "b", "e", "r">>
\* a custom attribute without a structure type
NoLabel == <<>>

CustomAbsent == [present |-> FALSE, label |-> NoLabel]
Custom(label) == [present |-> TRUE, label |-> label]
Customs == {CustomAbsent, Custom(NoLabel), Custom(Header), Custom(PageNumber)}
LineCounts == 0..2
RegionId(i) == <<"r", i>>
TextRegions ==
    UNION {[1..k -> [custom : Customs, lines : LineCounts, whole : BOOLEAN]] :
           k \in 0..MaxRegions}
TypeFilters == {{}, {Header}, {Header, PageNumber}}

\* the value None of type
TypeNone == <<"None">>

\* re.search(r'type:[a-z]+;', custom) and match.group()[5:-1]: the label
\* when it is a run of one or more lower-case letters closed by ";"
SearchType(custom) ==
    IF custom.label # NoLabel
       /\ \A k \in 1..Len(custom.label) : custom.label[k] \in LowerCase
    THEN custom.label
    ELSE TypeNone

\* the type of a region; re.search raises TypeError for custom = None, which
\* only validateHtrModel catches
RegionType(module, custom) ==
    IF custom.present THEN [kind |-> "return", type |-> SearchType(custom)]
    ELSE IF module = "validateHtrModel"
         THEN [kind |-> "return", type |-> TypeNone]
         ELSE Raise("TypeError")

\* textregion.findall('.//Unicode')
UnicodeElements(i, r) ==
    [k \in 1..r.lines |-> <<RegionId(i), k>>]
        \o (IF r.whole THEN <<<<RegionId(i), 0>>>> ELSE <<>>)

\* unicode[:-1]
AllButLast(s) == IF s = <<>> THEN <<>> ELSE SubSeq(s, 1, Len(s) - 1)

TextregionEntry(i, type, textline) ==
    [id |-> RegionId(i), type |-> type, textline |-> textline]

ReturnTextregions(entries) == [kind |-> "return", entries |-> entries]

\* "if not textregion_types: pass  elif type not in textregion_types: continue"
PassesTypeFilter(type, textregion_types) ==
    textregion_types = {} \/ type \in textregion_types

\* the loop over the TextRegion elements from region i on, acc the list
\* textregions
RECURSIVE TextregionLoop(_, _, _, _, _)
TextregionLoop(module, regions, textregion_types, i, acc) ==
    IF i > Len(regions) THEN ReturnTextregions(acc)
    ELSE LET ty == RegionType(module, regions[i].custom)
             textline == AllButLast(UnicodeElements(i, regions[i]))
         IN  IF ty.kind = "raise" THEN ty
             ELSE IF ~PassesTypeFilter(ty.type, textregion_types) \/ textline = <<>>
                  THEN TextregionLoop(module, regions, textregion_types, i + 1, acc)
                  ELSE TextregionLoop(module, regions, textregion_types, i + 1,
                            Append(acc, TextregionEntry(i, ty.type, textline)))

GetTextregions(module, regions, textregion_types) ==
    TextregionLoop(module, regions, textregion_types, 1, <<>>)

TxApply ==
    /\ txResult = Pending
    /\ txResult' = GetTextregions(txModule, txRegions, txFilter)
    /\ UNCHANGED <<txModule, txRegions, txFilter>>

InitTextregions ==
    /\ RetryIdle /\ PviIdle /\ SelIdle /\ DrvIdle /\ EvIdle /\ LgIdle /\ CiIdle /\ RcIdle
    /\ DnIdle /\ StIdle /\ PlIdle
    /\ txModule \in PviModules
    /\ txRegions \in TextRegions
    /\ txFilter \in TypeFilters
    /\ txResult = Pending

otherThanTextregions == <<retryVars, pviVars, selVars, drvVars, evVars, lgVars,
                          ciVars, dnVars, stVars, plVars, rcVars>>

NextTextregions == TxApply /\ UNCHANGED otherThanTextregions

SpecTextregions == InitTextregions /\ [][NextTextregions]_vars

\* ---- what the claim expects of a region
\* the type label the region carries (TypeNone when it carries none)
TxLabel(r) == IF r.custom.label = NoLabel THEN TypeNone ELSE r.custom.label
\* its text-content elements without the one of the whole region
TxLineElements(i) == [k \in 1..txRegions[i].lines |-> <<RegionId(i), k>>]
\* the regions that get an entry, in document order
TxExpected ==
    SelectSeq([i \in 1..Len(txRegions) |-> i],
              LAMBDA i : /\ txFilter = {} \/ TxLabel(txRegions[i]) \in txFilter
                         /\ txRegions[i].lines > 0)

\* C25: get_textregions returns, in document order, one entry for every
\* TextRegion whose type label passes the filter (an empty filter lets every
\* region pass, also one without type label) and that has a line; the lines
\* of the entry are the text-content elements of the region without the
\* trailing element of the whole region.
C25_EntriesOfFilteredRegions ==
    txResult # Pending =>
        /\ txResult.kind = "return"
        /\ Len(txResult.entries) = Len(TxExpected)
        /\ \A k \in 1..Len(TxExpected) :
              /\ txResult.entries[k].id = RegionId(TxExpected[k])
              /\ txResult.entries[k].textline = TxLineElements(TxExpected[k])


(***************************************************************************)
(* Part 11.  replaceCharacters: contains_character, replace_string and the *)
(* loop of the script.                                                     *)
(*                                                                         *)
(* A page xml is the texts of its Unicode elements, one element per line   *)
(* of the file, and the text of a custom attribute.  A text is a sequence  *)
(* of characters; "T" and "F" stand for two of the special characters of   *)
(* char_replace and "t", "f" for what replaces them.  replace_string hands *)
(* a matched element to re.subn as a PATTERN: of the regular-expression    *)
(* syntax the model keeps the literal characters, "?", which makes what    *)
(* stands before it optional, and "(", which opens a group that no text    *)
(* of the model closes.                                                    *)
(***************************************************************************)
\* most pages of a document
MaxRcPages == 2
\* most requests of page xml in one run that are answered with 500 or lose
\* the connection and are sent again
MaxRcRetries == 2

char_replace == <<[char |-> "T", by |-> "t"], [char |-> "F", by |-> "f"]>>

RcTexts == {<<"a">>, <<"T">>, <<"T", "?">>, <<"F">>, <<"(", "T">>}
RcPage(unicode, custom) == [unicode |-> unicode, custom |-> custom]
RcPages ==
    {RcPage(u, c) : u \in UNION {[1..k -> RcTexts] : k \in 1..2},
                    c \in {<<>>, <<"T">>}}
\* a document: whether its title starts with TRAINING_VALIDATION_SET_HGB,
\* and the page xml of the latest transcript of each page
RcDocument(training, pages) == [training |-> training, pages |-> pages]
RcPageLists == UNION {[1..k -> RcPages] : k \in 1..MaxRcPages}
RcTrainingDocument == RcDocument(TRUE, <<RcPage(<<<<"T">>>>, <<>>)>>)
RcListings ==
    UNION {{<<RcTrainingDocument, RcDocument(FALSE, ps)>>,
            <<RcDocument(FALSE, ps), RcTrainingDocument>>} : ps \in RcPageLists}

Occurs(char, text) == \E k \in 1..Len(text) : text[k] = char

\* contains_character(char, page_xml): re.search over the whole file
contains_character(char, page_xml) ==
    \/ \E k \in 1..Len(page_xml.unicode) : Occurs(char, page_xml.unicode[k])
    \/ Occurs(char, page_xml.custom)

\* re.sub(str_search, str_replace, match)
Substitute(text, str_search, str_replace) ==
    [k \in 1..Len(text) |-> IF text[k] = str_search THEN str_replace ELSE text[k]]

\* the number of "?" a text starts with
RECURSIVE LeadingMarks(_)
LeadingMarks(p) ==
    IF p # <<>> /\ Head(p) = "?" THEN 1 + LeadingMarks(Tail(p)) ELSE 0

DropFirst(p, n) == SubSeq(p, n + 1, Len(p))

\* the text u is in the language of the text p read as a pattern (p does not
\* start with "?")
RECURSIVE PatternMatches(_, _)
PatternMatches(p, u) ==
    IF p = <<>> THEN u = <<>>
    ELSE LET marks == LeadingMarks(Tail(p))
             rest == DropFirst(Tail(p), marks)
         IN  \/ u # <<>> /\ Head(u) = Head(p) /\ PatternMatches(rest, Tail(u))
             \/ marks > 0 /\ PatternMatches(rest, u)

\* the element "<Unicode>u</Unicode>" is matched by the element
\* "<Unicode>m</Unicode>" read as a pattern: "?" at the start of m makes the
\* ">" of the opening tag optional
ElementMatches(m, u) == PatternMatches(DropFirst(m, LeadingMarks(m)), u)

\* re.compile of the element raises re.error (missing parenthesis)
PatternError(m) == Occurs("(", m)

\* re.subn(match, match_replaced, page_xml) for a match that compiles
Subn(match, match_replaced, page_xml) ==
    [page_xml |->
        [page_xml EXCEPT !.unicode =
            [k \in 1..Len(page_xml.unicode) |->
                IF ElementMatches(match, page_xml.unicode[k])
                THEN match_replaced ELSE page_xml.unicode[k]]],
     n |-> Cardinality({k \in 1..Len(page_xml.unicode) :
                            ElementMatches(match, page_xml.unicode[k])})]

\* re.findall(r'<Unicode>.*%s.*</Unicode>' % str_search, page_xml)
FindAll(str_search, page_xml) ==
    SelectSeq(page_xml.unicode, LAMBDA u : Occurs(str_search, u))

\* the loop "for match in str_match" from match i on; error tells that
\* re.subn raised
RECURSIVE ReplaceLoop(_, _, _, _, _, _)
ReplaceLoop(str_match, i, page_xml, n_replaced, str_search, str_replace) ==
    IF i > Len(str_match)
    THEN [page_xml |-> page_xml, n_replaced |-> n_replaced, error |-> FALSE]
    ELSE IF PatternError(str_match[i])
    THEN [page_xml |-> page_xml, n_replaced |-> n_replaced, error |-> TRUE]
    ELSE LET r == Subn(str_match[i],
                       Substitute(str_match[i], str_search, str_replace),
                       page_xml)
         IN  ReplaceLoop(str_match, i + 1, r.page_xml, n_replaced + r.n,
                         str_search, str_replace)

replace_string(page_xml, str_search, str_replace) ==
    ReplaceLoop(FindAll(str_search, page_xml), 1, page_xml, 0,
                str_search, str_replace)

\* "for char in char_replace" from entry i on; the result is page_xml,
\* has_changed and the sum of n_replaced, or the error of replace_string
RECURSIVE CharLoop(_, _, _, _)
CharLoop(i, page_xml, has_changed, n) ==
    IF i > Len(char_replace)
    THEN [page_xml |-> page_xml, has_changed |-> has_changed, n_replaced |-> n,
          error |-> FALSE]
    ELSE IF contains_character(char_replace[i].char, page_xml)
         THEN LET r == replace_string(page_xml, char_replace[i].char,
                                      char_replace[i].by)
              IN  IF r.error
                  THEN [page_xml |-> r.page_xml, has_changed |-> has_changed,
                        n_replaced |-> n + r.n_replaced, error |-> TRUE]
                  ELSE CharLoop(i + 1, r.page_xml, TRUE, n + r.n_replaced)
         ELSE CharLoop(i + 1, page_xml, has_changed, n)

RcRequest(req, doc, page, o, xml, n) ==
    [req |-> req, doc |-> doc, page |-> page, ok |-> o = "ok", xml |-> xml,
     n_replaced |-> n]

\* the running call of get_page_xml: the first call for the page, a retry
\* with the first call waiting in its try block (after a 500), or a retry
\* with the first call waiting in its handler (after a lost connection)
RcPagePcs == {"pagexml", "pagexml_try", "pagexml_handler"}

RcCall(at) ==
    CASE at = "pagexml" -> [retry |-> FALSE, root |-> "running"]
      [] at = "pagexml_try" -> [retry |-> TRUE, root |-> "try"]
      [] at = "pagexml_handler" -> [retry |-> TRUE, root |-> "handler"]

RcCallPc(root) ==
    CASE root = "running" -> "pagexml"
      [] root = "try" -> "pagexml_try"
      [] root = "handler" -> "pagexml_handler"

\* the requests of page xml so far that were sent again
RcRetries == {i \in 1..Len(rcLog) : rcLog[i].req = "pagexml_again"}

\* "for row in docs" from position i on: the documents whose title starts
\* with TRAINING_VALIDATION_SET_HGB are passed
RECURSIVE NextDocument(_, _)
NextDocument(listing, i) ==
    IF i > Len(listing) THEN 0
    ELSE IF listing[i].training THEN NextDocument(listing, i + 1)
    ELSE i

\* the loops move on after page page_nr of document doc
RcAfterPage(doc, page_nr) ==
    IF page_nr < Len(rcDocs[doc].pages)
    THEN [pc |-> "pagexml", doc |-> doc, page |-> page_nr + 1]
    ELSE IF NextDocument(rcDocs, doc + 1) = 0
         THEN [pc |-> "finished", doc |-> doc, page |-> page_nr]
         ELSE [pc |-> "fulldoc", doc |-> NextDocument(rcDocs, doc + 1), page |-> 0]

RcLogin(o) ==
    /\ rcPc = "login"
    /\ rcLog' = Append(rcLog, RcRequest("login", 0, 0, o, <<>>, 0))
    /\ rcPc' = IF o = "ok" THEN "list_documents" ELSE "aborted"
    /\ UNCHANGED <<rcDocs, rcDoc, rcPage, rcXml>>

RcListDocuments(o) ==
    /\ rcPc = "list_documents"
    /\ rcLog' = Append(rcLog, RcRequest("list_documents", 0, 0, o, <<>>, 0))
    /\ IF o = "ok"
       THEN /\ rcDoc' = NextDocument(rcDocs, 1)
            /\ rcPc' = IF NextDocument(rcDocs, 1) = 0 THEN "finished" ELSE "fulldoc"
       ELSE rcPc' = "aborted" /\ UNCHANGED rcDoc
    /\ UNCHANGED <<rcDocs, rcPage, rcXml>>

RcGetDocument(o) ==
    /\ rcPc = "fulldoc"
    /\ rcLog' = Append(rcLog, RcRequest("fulldoc", rcDoc, 0, o, <<>>, 0))
    /\ IF o = "ok" THEN rcPc' = "pagexml" /\ rcPage' = 1
       ELSE rcPc' = "aborted" /\ UNCHANGED rcPage
    /\ UNCHANGED <<rcDocs, rcDoc, rcXml>>

\* one request of get_page_xml for the page and, when it is answered with
\* success, the loop over the characters.  A request answered 500, and the
\* first one that loses the connection, is sent again after the sleep; any
\* other answer makes the call return None, and contains_character raises
\* TypeError.
RcGetPageXml(o) ==
    /\ rcPc \in RcPagePcs
    /\ LET call == RcCall(rcPc)
           got == LegacyStep(call.retry, call.root, o)
           page_xml == rcDocs[rcDoc].pages[rcPage]
           r == CharLoop(1, page_xml, FALSE, 0)
           to == RcAfterPage(rcDoc, rcPage)
       IN  CASE got.result = Pending ->
                    /\ Cardinality(RcRetries) < MaxRcRetries
                    /\ rcLog' = Append(rcLog,
                            RcRequest("pagexml_again", rcDoc, rcPage, o, <<>>, 0))
                    /\ rcPc' = RcCallPc(got.root)
                    /\ UNCHANGED <<rcDoc, rcPage, rcXml>>
             [] got.result # Pending /\ got.result.kind = "return"
                   /\ got.result.value = "text" ->
                    /\ rcLog' = Append(rcLog,
                            RcRequest("pagexml", rcDoc, rcPage, o, page_xml,
                                      r.n_replaced))
                    /\ IF r.error
                       THEN rcPc' = "aborted" /\ UNCHANGED <<rcDoc, rcPage, rcXml>>
                       ELSE IF r.has_changed
                       THEN rcPc' = "post" /\ rcXml' = r.page_xml
                                /\ UNCHANGED <<rcDoc, rcPage>>
                       ELSE /\ rcPc' = to.pc /\ rcDoc' = to.doc
                            /\ rcPage' = to.page
                            /\ UNCHANGED rcXml
             [] OTHER ->
                    /\ rcLog' = Append(rcLog,
                            RcRequest("pagexml", rcDoc, rcPage, o, <<>>, 0))
                    /\ rcPc' = "aborted"
                    /\ UNCHANGED <<rcDoc, rcPage, rcXml>>
    /\ UNCHANGED rcDocs

\* post_page_xml raises when the upload is not answered with success
RcPostPageXml(o) ==
    /\ rcPc = "post"
    /\ rcLog' = Append(rcLog, RcRequest("post", rcDoc, rcPage, o, rcXml, 0))
    /\ LET to == RcAfterPage(rcDoc, rcPage)
       IN  IF o = "ok"
           THEN rcPc' = to.pc /\ rcDoc' = to.doc /\ rcPage' = to.page
           ELSE rcPc' = "aborted" /\ UNCHANGED <<rcDoc, rcPage>>
    /\ UNCHANGED <<rcDocs, rcXml>>

InitReplace ==
    /\ RetryIdle /\ PviIdle /\ SelIdle /\ DrvIdle /\ EvIdle /\ LgIdle /\ CiIdle
    /\ DnIdle /\ StIdle /\ PlIdle /\ TxIdle
    /\ rcDocs \in RcListings
    /\ rcPc = "login" /\ rcDoc = 0 /\ rcPage = 0 /\ rcXml = <<>> /\ rcLog = <<>>

otherThanReplace == <<retryVars, pviVars, selVars, drvVars, evVars, lgVars,
                      ciVars, dnVars, stVars, plVars, txVars>>

NextReplace ==
    \/ \E o \in RequestOutcomes : RcLogin(o) /\ UNCHANGED otherThanReplace
    \/ \E o \in RequestOutcomes : RcListDocuments(o) /\ UNCHANGED otherThanReplace
    \/ \E o \in RequestOutcomes : RcGetDocument(o) /\ UNCHANGED otherThanReplace
    \/ \E o \in HttpOutcomes : RcGetPageXml(o) /\ UNCHANGED otherThanReplace
    \/ \E o \in RequestOutcomes : RcPostPageXml(o) /\ UNCHANGED otherThanReplace

SpecReplace == InitReplace /\ [][NextReplace]_vars

\* ---- the claim
RcPosts == {i \in 1..Len(rcLog) : rcLog[i].req = "post"}
\* the download of the page that request i uploads
RcDownloadOf(i) ==
    CHOOSE j \in 1..(i - 1) :
        /\ rcLog[j].req = "pagexml" /\ rcLog[j].ok
        /\ rcLog[j].doc = rcLog[i].doc /\ rcLog[j].page = rcLog[i].page

\* C30: replaceCharacters uploads a page at most once in a run, and only
\* with a content that differs from the downloaded one (a character was
\* replaced); a page without replacement is not uploaded; and no page of a
\* document whose title starts with TRAINING_VALIDATION_SET_HGB is
\* downloaded or uploaded.
C30_UploadOnlyChangedPagesOnce ==
    /\ \A i, j \in RcPosts :
          (rcLog[i].doc = rcLog[j].doc /\ rcLog[i].page = rcLog[j].page) => i = j
    /\ \A i \in RcPosts :
          /\ rcLog[i].xml # rcLog[RcDownloadOf(i)].xml
          /\ rcLog[RcDownloadOf(i)].n_replaced > 0
    /\ \A i \in 1..Len(rcLog) :
          rcLog[i].doc # 0 => ~rcDocs[rcLog[i].doc].training

=============================================================================
